---- MODULE Spec2Model ----
(***************************************************************************)
(* Verification model of the virtual_brain crates (vb-core, vb-operators,  *)
(* vb-engine): the coordinate types, the MentalState updates and the       *)
(* StateManager history ledger.                                            *)
(*                                                                         *)
(* Representation.  An f64 is modelled in fixed point with two decimals:   *)
(* the integer x stands for x / FxOne.  Option<T> is a sequence of length  *)
(* 0 (None) or 1 (Some).  Result<T, E> is a record with an ok flag.        *)
(***************************************************************************)
EXTENDS Integers, Sequences, FiniteSets, TLC

VARIABLES
    max_history,      \* StateManager.max_history
    current_state,    \* StateManager.current_state
    history,          \* StateManager.history
    appended,         \* history variable: every snapshot pushed since the last initialize
    fifo_scope,       \* history variable: initialize was called and clear_history was not since
    n_ops,            \* number of StateManager operations applied so far
    call,             \* the last call of a pure function: its name, arguments and result
    overflow_checks,  \* the build profile: integer overflow panics (debug) or wraps (release)
    kuramoto_state,   \* PoincareComputer.kuramoto_state
    state_history,    \* PoincareComputer.state_history
    frame             \* the locals of the call in progress, for the calls modelled step by step

smVars == <<max_history, current_state, history, appended, fifo_scope, n_ops>>
callVars == <<call, overflow_checks, kuramoto_state, state_history, frame>>

vars == <<max_history, current_state, history, appended, fifo_scope, n_ops,
          call, overflow_checks, kuramoto_state, state_history, frame>>

----------------------------------------------------------------------------
(* Bounds of the model *)

\* largest max_history a StateManager is created with
MaxHistoryBound == 2
\* number of StateManager operations applied after new()
MaxOps == 4

----------------------------------------------------------------------------
(* f64 in fixed point *)

\* the f64 1.0
FxOne == 100

None == <<>>
Some(x) == <<x>>
IsSome(o) == Len(o) = 1
Unwrap(o) == o[1]

\* Result<T, E>
Ok(v) == [tag |-> "Ok", val |-> v]
Err(kind, data) == [tag |-> "Err", err |-> kind, data |-> data]
IsErr(r, kind, data) == r.tag = "Err" /\ r.err = kind /\ r.data = data

\* f64::NAN, as a number no fixed-point value of the model comes near; every
\* comparison with it is false and every sum or product with it is NaN
NaN == -1000000
IsNaN(x) == x = NaN

FAdd(a, b) == IF IsNaN(a) \/ IsNaN(b) THEN NaN ELSE a + b
FSub(a, b) == IF IsNaN(a) \/ IsNaN(b) THEN NaN ELSE a - b
\* the product of two fixed-point values, rounded to the nearest hundredth
FMul(a, b) == IF IsNaN(a) \/ IsNaN(b) THEN NaN ELSE (2 * a * b + FxOne) \div (2 * FxOne)

\* -x
FNeg(x) == IF IsNaN(x) THEN NaN ELSE -x

\* f64::clamp(0.0, 1.0): NaN stays NaN
Clamp01(x) == IF IsNaN(x) THEN NaN ELSE IF x < 0 THEN 0 ELSE IF x > FxOne THEN FxOne ELSE x

\* (lo..=hi).contains(&x) for the range 0.0..=1.0
InUnit(x) == ~IsNaN(x) /\ 0 <= x /\ x <= FxOne

----------------------------------------------------------------------------
(* Machine integers.                                                        *)
(* i64 and u64 values do not fit the model checker's integers, so a wide    *)
(* value is a sign and a magnitude, the magnitude a little-endian sequence  *)
(* of base-256 digits without leading zeros.  Arithmetic is exact; the      *)
(* result of each operation is then brought into the type's range the way   *)
(* the build does: a panic with overflow checks (debug), two's-complement   *)
(* wrapping without (release).                                              *)

RECURSIVE MagNorm(_)
MagNorm(a) == IF a = <<>> THEN <<>>
              ELSE IF a[Len(a)] = 0 THEN MagNorm(SubSeq(a, 1, Len(a) - 1))
              ELSE a

RECURSIVE MagFromNat(_)
MagFromNat(k) == IF k = 0 THEN <<>> ELSE <<k % 256>> \o MagFromNat(k \div 256)

RECURSIVE MagToNat(_)
MagToNat(a) == IF a = <<>> THEN 0 ELSE Head(a) + 256 * MagToNat(Tail(a))

RECURSIVE MagAddC(_, _, _)
MagAddC(a, b, c) ==
    IF a = <<>> /\ b = <<>> THEN (IF c = 0 THEN <<>> ELSE <<c>>)
    ELSE LET x == IF a = <<>> THEN 0 ELSE Head(a)
             y == IF b = <<>> THEN 0 ELSE Head(b)
             t == x + y + c
         IN  <<t % 256>> \o MagAddC(IF a = <<>> THEN <<>> ELSE Tail(a),
                                    IF b = <<>> THEN <<>> ELSE Tail(b),
                                    t \div 256)

MagAdd(a, b) == MagNorm(MagAddC(a, b, 0))

\* a - b for a >= b
RECURSIVE MagSubB(_, _, _)
MagSubB(a, b, borrow) ==
    IF a = <<>> THEN <<>>
    ELSE LET y == IF b = <<>> THEN 0 ELSE Head(b)
             t == Head(a) - y - borrow
         IN  <<(t + 256) % 256>> \o MagSubB(Tail(a),
                                            IF b = <<>> THEN <<>> ELSE Tail(b),
                                            IF t < 0 THEN 1 ELSE 0)

MagSub(a, b) == MagNorm(MagSubB(a, b, 0))

RECURSIVE MagMulDigitC(_, _, _)
MagMulDigitC(a, d, c) ==
    IF a = <<>> THEN (IF c = 0 THEN <<>> ELSE <<c>>)
    ELSE LET t == Head(a) * d + c
         IN  <<t % 256>> \o MagMulDigitC(Tail(a), d, t \div 256)

RECURSIVE MagMul(_, _)
MagMul(a, b) ==
    IF b = <<>> \/ a = <<>> THEN <<>>
    ELSE MagAdd(MagMulDigitC(a, Head(b), 0),
                LET r == MagMul(a, Tail(b)) IN IF r = <<>> THEN <<>> ELSE <<0>> \o r)

\* a < b
RECURSIVE MagLtFrom(_, _, _)
MagLtFrom(a, b, i) ==
    IF i = 0 THEN FALSE
    ELSE IF a[i] # b[i] THEN a[i] < b[i]
    ELSE MagLtFrom(a, b, i - 1)

MagLt(a, b) == IF Len(a) # Len(b) THEN Len(a) < Len(b) ELSE MagLtFrom(a, b, Len(a))

\* quotient and remainder of a by the small divisor k, most significant digit first
RECURSIVE MagDivRemFrom(_, _, _, _)
MagDivRemFrom(a, k, i, rem) ==
    IF i = 0 THEN [quot |-> <<>>, rem |-> rem]
    ELSE LET cur == rem * 256 + a[i]
             rest == MagDivRemFrom(a, k, i - 1, cur % k)
         IN  [quot |-> Append(rest.quot, cur \div k), rem |-> rest.rem]

MagDivSmall(a, k) == MagNorm(MagDivRemFrom(a, k, Len(a), 0).quot)
MagModSmall(a, k) == MagDivRemFrom(a, k, Len(a), 0).rem

\* a mod 256^nbytes
MagLow(a, nbytes) == MagNorm(SubSeq(a, 1, IF Len(a) < nbytes THEN Len(a) ELSE nbytes))

\* 256^nbytes and 256^nbytes / 2
MagPow256(nbytes) == [i \in 1..(nbytes + 1) |-> IF i = nbytes + 1 THEN 1 ELSE 0]
MagHalfPow256(nbytes) == [i \in 1..nbytes |-> IF i = nbytes THEN 128 ELSE 0]

\* signed wide values
Wide(neg, mag) == [neg |-> neg /\ mag # <<>>, mag |-> mag]
WideFromInt(k) == IF k < 0 THEN Wide(TRUE, MagFromNat(-k)) ELSE Wide(FALSE, MagFromNat(k))
WideToInt(w) == IF w.neg THEN -MagToNat(w.mag) ELSE MagToNat(w.mag)

WideAdd(x, y) ==
    IF x.neg = y.neg THEN Wide(x.neg, MagAdd(x.mag, y.mag))
    ELSE IF MagLt(x.mag, y.mag) THEN Wide(y.neg, MagSub(y.mag, x.mag))
    ELSE Wide(x.neg, MagSub(x.mag, y.mag))

WideNeg(x) == Wide(~x.neg, x.mag)
WideSub(x, y) == WideAdd(x, WideNeg(y))
WideMul(x, y) == Wide(x.neg # y.neg, MagMul(x.mag, y.mag))
\* Rust's integer division truncates toward zero
WideDivSmall(x, k) == Wide(x.neg, MagDivSmall(x.mag, k))
WideLt(x, y) ==
    IF x.neg # y.neg THEN x.neg
    ELSE IF x.neg THEN MagLt(y.mag, x.mag) ELSE MagLt(x.mag, y.mag)
WideLe(x, y) == ~WideLt(y, x)

\* whether x is a value of the signed type of nbytes bytes
SignedFits(x, nbytes) ==
    IF x.neg THEN ~MagLt(MagHalfPow256(nbytes), x.mag)
    ELSE MagLt(x.mag, MagHalfPow256(nbytes))

\* x reduced modulo 256^nbytes into the signed range (two's complement)
SignedWrap(x, nbytes) ==
    LET low == MagLow(x.mag, nbytes)
        u == IF x.neg /\ low # <<>> THEN MagSub(MagPow256(nbytes), low) ELSE low
    IN  IF MagLt(u, MagHalfPow256(nbytes)) THEN Wide(FALSE, u)
        ELSE Wide(TRUE, MagSub(MagPow256(nbytes), u))

\* whether x is a value of the unsigned type of nbytes bytes, and x wrapped into it
UnsignedFits(x, nbytes) == ~x.neg /\ MagLt(x.mag, MagPow256(nbytes))
UnsignedWrap(x, nbytes) ==
    LET low == MagLow(x.mag, nbytes)
    IN  Wide(FALSE, IF x.neg /\ low # <<>> THEN MagSub(MagPow256(nbytes), low) ELSE low)

\* outcomes of an evaluation: a value, or the thread panicking
Val(v) == [tag |-> "Val", val |-> v]
Panic == [tag |-> "Panic"]
IsVal(o) == o.tag = "Val"

\* the exact result x as the signed type of nbytes bytes computes it
SignedArith(x, nbytes, checks) ==
    IF SignedFits(x, nbytes) THEN Val(x)
    ELSE IF checks THEN Panic
    ELSE Val(SignedWrap(x, nbytes))

UnsignedArith(x, nbytes, checks) ==
    IF UnsignedFits(x, nbytes) THEN Val(x)
    ELSE IF checks THEN Panic
    ELSE Val(UnsignedWrap(x, nbytes))

----------------------------------------------------------------------------
(* SCoord *)

SCoord_validate_range(name, val) ==
    IF ~InUnit(val) THEN Err("OutOfBounds", <<name, val>>) ELSE Ok(<<>>)

SCoord_new(sk, st, se) ==
    IF SCoord_validate_range("sk", sk).tag = "Err" THEN SCoord_validate_range("sk", sk)
    ELSE IF SCoord_validate_range("st", st).tag = "Err" THEN SCoord_validate_range("st", st)
    ELSE IF SCoord_validate_range("se", se).tag = "Err" THEN SCoord_validate_range("se", se)
    ELSE Ok([sk |-> sk, st |-> st, se |-> se])

SCoord_new_unchecked(sk, st, se) == [sk |-> sk, st |-> st, se |-> se]

\* from_frequency for the frequency 10^freq_exp Hz.  The logarithms are
\* tabulated for the arguments the model draws:
\*   sk = log2(max(p * n, 1)) / log2(n) with p = 1 / (1 + exp(HBAR * omega / kT)),
\*        p just under 0.5 at 10 Hz and 0.4614 at 1e12 Hz; for n = 1 both
\*        logarithms are 0 and the quotient 0.0 / 0.0 is NaN, for n = 0 the
\*        divisor is -inf and the quotient is -0.0
\*   st = (log10(1 / f) + 15) / 20
\*   se = -ln(1 - min(f / 1e12, 1) + 1e-10) / 10
FromFrequencySk(freq_exp, n_states) ==
    IF n_states = 1 THEN NaN
    ELSE IF n_states = 0 \/ n_states = 2 THEN 0
    ELSE IF n_states = 4 THEN (IF freq_exp = 12 THEN 44 ELSE 50)
    ELSE IF freq_exp = 12 THEN 63 ELSE 67
FromFrequencySt(freq_exp) == 5 * (15 - freq_exp)
FromFrequencySe(freq_exp) == IF freq_exp = 12 THEN 230 ELSE 0

SCoord_from_frequency(freq_exp, n_states) ==
    [sk |-> Clamp01(FromFrequencySk(freq_exp, n_states)),
     st |-> Clamp01(FromFrequencySt(freq_exp)),
     se |-> Clamp01(FromFrequencySe(freq_exp))]

SCoord_origin == [sk |-> 0, st |-> 0, se |-> 0]

SCoord_equilibrium == [sk |-> FxOne, st |-> FxOne, se |-> FxOne]

SCoord_update(self, delta_sk, delta_st, delta_se) ==
    [sk |-> Clamp01(FAdd(self.sk, delta_sk)),
     st |-> Clamp01(FAdd(self.st, delta_st)),
     se |-> Clamp01(FAdd(self.se, delta_se))]

SCoord_interpolate(self, other, t) ==
    IF ~InUnit(t) THEN Err("InvalidInterpolation", <<t>>)
    ELSE Ok([sk |-> FAdd(self.sk, FMul(t, FSub(other.sk, self.sk))),
             st |-> FAdd(self.st, FMul(t, FSub(other.st, self.st))),
             se |-> FAdd(self.se, FMul(t, FSub(other.se, self.se)))])

\* f64::sqrt of a sum of squares of hundredths, in hundredths, to the nearest
RECURSIVE FloorSqrt(_, _, _)
FloorSqrt(x, lo, hi) ==
    IF lo >= hi THEN lo
    ELSE LET mid == (lo + hi + 1) \div 2
         IN  IF mid * mid <= x THEN FloorSqrt(x, mid, hi) ELSE FloorSqrt(x, lo, mid - 1)
Sqrt(x) == LET f == FloorSqrt(x, 0, x) IN IF x - f * f > f THEN f + 1 ELSE f

\* dsk * dsk + dst * dst + dse * dse
SquaredNorm(a, b) ==
    IF \E v \in {a.sk, a.st, a.se, b.sk, b.st, b.se} : IsNaN(v) THEN NaN
    ELSE (a.sk - b.sk) * (a.sk - b.sk) + (a.st - b.st) * (a.st - b.st)
             + (a.se - b.se) * (a.se - b.se)

SCoord_distance(self, other) ==
    IF IsNaN(SquaredNorm(self, other)) THEN NaN ELSE Sqrt(SquaredNorm(self, other))

\* gradient: the components of other - self over norm + EPSILON; EPSILON =
\* 1e-10 is below a hundredth of any norm but 0.0, where the quotient is 0.0
SCoord_gradient(self, other) ==
    LET norm == SCoord_distance(self, other)
        over(d) == IF IsNaN(norm) THEN NaN
                   ELSE IF norm = 0 THEN 0
                   ELSE IF d >= 0 THEN (2 * d * FxOne + norm) \div (2 * norm)
                   ELSE -((2 * (-d) * FxOne + norm) \div (2 * norm))
    IN  <<over(other.sk - self.sk), over(other.st - self.st), over(other.se - self.se)>>

\* the range constraint of an SCoord
ValidSCoord(s) == InUnit(s.sk) /\ InUnit(s.st) /\ InUnit(s.se)

----------------------------------------------------------------------------
(* TernaryAddr *)

U64Bytes == 8

RECURSIVE FirstAbove2(_, _)
FirstAbove2(digits, i) ==
    IF i > Len(digits) THEN 0
    ELSE IF digits[i] > 2 THEN i
    ELSE FirstAbove2(digits, i + 1)

TernaryAddr_new(digits) ==
    IF FirstAbove2(digits, 1) # 0
    THEN Err("InvalidDigit", <<digits[FirstAbove2(digits, 1)]>>)
    ELSE Ok([digits |-> digits])

TernaryAddr_new_unchecked(digits) == [digits |-> digits]

TernaryAddr_root == [digits |-> <<>>]

\* 3^exp, exactly
RECURSIVE MagPow3(_)
MagPow3(exp) == IF exp = 0 THEN <<1>> ELSE MagMulDigitC(MagPow3(exp - 1), 3, 0)

\* 3u64.pow(exp)
U64Pow3(exp, checks) == UnsignedArith(Wide(FALSE, MagPow3(exp)), U64Bytes, checks)

\* the digits pushed by the loop of encode, least significant first
RECURSIVE EncodeLoop(_, _)
EncodeLoop(remaining, k) ==
    IF k = 0 THEN <<>>
    ELSE <<MagModSmall(remaining, 3)>> \o EncodeLoop(MagDivSmall(remaining, 3), k - 1)

Reverse(q) == [i \in 1..Len(q) |-> q[Len(q) + 1 - i]]

TernaryAddr_encode(value, depth, checks) ==
    LET pw == U64Pow3(depth, checks)
    IN  IF ~IsVal(pw) THEN Panic
        ELSE LET max_value == WideSub(pw.val, WideFromInt(1))
             IN  IF WideLt(max_value, value)
                 THEN Err("ValueExceedsCapacity", <<value, max_value, depth>>)
                 ELSE Ok([digits |-> Reverse(EncodeLoop(value.mag, depth))])

\* the fold of decode from digit i on, acc * 3 + d in u64
RECURSIVE DecodeFold(_, _, _, _)
DecodeFold(digits, i, acc, checks) ==
    IF i > Len(digits) THEN Val(acc)
    ELSE LET tripled == UnsignedArith(WideMul(acc, WideFromInt(3)), U64Bytes, checks)
         IN  IF ~IsVal(tripled) THEN Panic
             ELSE LET next == UnsignedArith(WideAdd(tripled.val, WideFromInt(digits[i])),
                                            U64Bytes, checks)
                  IN  IF ~IsVal(next) THEN Panic
                      ELSE DecodeFold(digits, i + 1, next.val, checks)

TernaryAddr_decode(self, checks) == DecodeFold(self.digits, 1, WideFromInt(0), checks)

RECURSIVE Pow3(_)
Pow3(k) == IF k = 0 THEN 1 ELSE 3 * Pow3(k - 1)

\* the digits of from_float from step i on; low is k / 3^i and high is
\* (k + 1) / 3^i, so value < low + third compares value * 3^(i+1) with 3k + 1
RECURSIVE FromFloatLoop(_, _, _, _)
FromFloatLoop(value, k, i, depth) ==
    IF i = depth THEN <<>>
    ELSE IF value * Pow3(i + 1) < (3 * k + 1) * FxOne
         THEN <<0>> \o FromFloatLoop(value, 3 * k, i + 1, depth)
    ELSE IF value * Pow3(i + 1) < (3 * k + 2) * FxOne
         THEN <<1>> \o FromFloatLoop(value, 3 * k + 1, i + 1, depth)
    ELSE <<2>> \o FromFloatLoop(value, 3 * k + 2, i + 1, depth)

TernaryAddr_from_float(value, depth) ==
    IF ~InUnit(value) THEN Err("ValueOutOfBounds", <<value>>)
    ELSE Ok([digits |-> FromFloatLoop(value, 0, 0, depth)])

\* the index k of the interval [k / 3^d, (k + 1) / 3^d] of a short address
RECURSIVE IntervalIndex(_, _)
IntervalIndex(digits, i) ==
    IF i = 0 THEN 0 ELSE 3 * IntervalIndex(digits, i - 1) + digits[i]

\* the centre of the interval, to the nearest hundredth; a digit above 2
\* reaches unreachable!() in interval
TernaryAddr_to_float(self) ==
    IF FirstAbove2(self.digits, 1) # 0 THEN Panic
    ELSE Val(((2 * IntervalIndex(self.digits, Len(self.digits)) + 1) * FxOne
                  + Pow3(Len(self.digits)))
             \div (2 * Pow3(Len(self.digits))))

TernaryAddr_trisect(self) ==
    <<[digits |-> Append(self.digits, 0)],
      [digits |-> Append(self.digits, 1)],
      [digits |-> Append(self.digits, 2)]>>

TernaryAddr_parent(self) ==
    IF self.digits = <<>> THEN None
    ELSE Some([digits |-> SubSeq(self.digits, 1, Len(self.digits) - 1)])

TernaryAddr_navigate(self, direction) ==
    IF direction > 2 THEN Err("InvalidDirection", <<direction>>)
    ELSE Ok([digits |-> Append(self.digits, direction)])

TernaryAddr_depth(self) == Len(self.digits)

\* zip(..).take_while(|(a, b)| a == b): the number of leading pairs that agree
RECURSIVE TakeWhileEqual(_, _, _)
TakeWhileEqual(p, q, i) ==
    IF i < Len(p) /\ i < Len(q) /\ p[i + 1] = q[i + 1]
    THEN TakeWhileEqual(p, q, i + 1)
    ELSE i

TernaryAddr_common_ancestor_Root(self, other) == [digits |-> <<>>]

TernaryAddr_common_ancestor(self, other) ==
    [digits |-> SubSeq(self.digits, 1, TakeWhileEqual(self.digits, other.digits, 0))]

\* usize arithmetic: the sum of the depths is never below twice the ancestor's
TernaryAddr_navigation_distance(self, other) ==
    TernaryAddr_depth(self) + TernaryAddr_depth(other)
        - 2 * TernaryAddr_depth(TernaryAddr_common_ancestor(self, other))

\* while current.depth() > ancestor.depth() { push(current); current = parent }
RECURSIVE ClimbTo(_, _)
ClimbTo(current, ancestor) ==
    IF TernaryAddr_depth(current) > TernaryAddr_depth(ancestor)
    THEN <<current>> \o ClimbTo(Unwrap(TernaryAddr_parent(current)), ancestor)
    ELSE <<>>

TernaryAddr_path_to(self, other) ==
    LET ancestor == TernaryAddr_common_ancestor(self, other)
    IN  ClimbTo(self, ancestor) \o <<ancestor>> \o Reverse(ClimbTo(other, ancestor))

\* char::to_digit(10)
ToDigit(c) ==
    IF c = "0" THEN Some(0) ELSE IF c = "1" THEN Some(1) ELSE IF c = "2" THEN Some(2)
    ELSE IF c = "3" THEN Some(3) ELSE IF c = "4" THEN Some(4) ELSE IF c = "5" THEN Some(5)
    ELSE IF c = "6" THEN Some(6) ELSE IF c = "7" THEN Some(7) ELSE IF c = "8" THEN Some(8)
    ELSE IF c = "9" THEN Some(9) ELSE None

\* from_string of a string given as the sequence of its characters
TernaryAddr_from_string(s) ==
    IF s = <<>> \/ s[1] # "T" THEN Err("InvalidPrefix", <<s>>)
    ELSE IF Len(s) = 1 THEN Ok(TernaryAddr_root)
    ELSE IF \E i \in 2..Len(s) : ToDigit(s[i]) = None THEN Err("InvalidDigit", <<255>>)
    ELSE TernaryAddr_new([i \in 1..(Len(s) - 1) |-> Unwrap(ToDigit(s[i + 1]))])

\* the range constraint of a TernaryAddr
ValidTernaryAddr(a) == \A i \in 1..Len(a.digits) : a.digits[i] \in {0, 1, 2}

\* vb-operators decode_scoord
decode_scoord(sk_addr, st_addr, se_addr) ==
    IF \E a \in {sk_addr, st_addr, se_addr} : ~IsVal(TernaryAddr_to_float(a)) THEN Panic
    ELSE Val(SCoord_new_unchecked(TernaryAddr_to_float(sk_addr).val,
                                  TernaryAddr_to_float(st_addr).val,
                                  TernaryAddr_to_float(se_addr).val))

----------------------------------------------------------------------------
(* PartitionCoord *)


\* widths in bytes of i32 and of i64 / u64
I32Bytes == 4
I64Bytes == 8

Spins == {"Down", "Up"}

\* an f64 spin argument: base / FxOne + eps * 1e-11
F64Arg(base, eps) == [base |-> base, eps |-> eps]
\* 1e-10 in units of 1e-11
SpinTolerance == 10
\* (v - c).abs() < 1e-10
F64Near(v, c) == v.base = c /\ v.eps < SpinTolerance /\ -v.eps < SpinTolerance

Spin_from_value(v) ==
    IF F64Near(v, -50) THEN Ok("Down")
    ELSE IF F64Near(v, 50) THEN Ok("Up")
    ELSE Err("InvalidSpin", <<v>>)

\* PartitionCoord::new with the upper test on l taken inclusive
PartitionCoord_new_LInclusive(n, l, m, s) ==
    IF n < 1 THEN Err("InvalidN", <<n>>)
    ELSE IF l < 0 \/ l > n THEN Err("InvalidL", <<l, n>>)
    ELSE IF m < -l \/ m > l THEN Err("InvalidM", <<m, l>>)
    ELSE Ok([n |-> n, l |-> l, m |-> m, s |-> s])

PartitionCoord_new(n, l, m, s) ==
    IF n < 1 THEN Err("InvalidN", <<n>>)
    ELSE IF l < 0 \/ l >= n THEN Err("InvalidL", <<l, n>>)
    ELSE IF m < -l \/ m > l THEN Err("InvalidM", <<m, l>>)
    ELSE Ok([n |-> n, l |-> l, m |-> m, s |-> s])

PartitionCoord_from_components(n, l, m, s_val) ==
    LET s == Spin_from_value(s_val)
    IN  IF s.tag = "Err" THEN s ELSE PartitionCoord_new(n, l, m, s.val)

PartitionCoord_default == [n |-> 1, l |-> 0, m |-> 0, s |-> "Down"]

\* Ok(2 * n * n) in i32
PartitionCoord_capacity(n, checks) ==
    IF n < 1 THEN Err("InvalidN", <<n>>)
    ELSE LET t1 == SignedArith(WideMul(WideFromInt(2), WideFromInt(n)), I32Bytes, checks)
         IN  IF ~IsVal(t1) THEN Panic
             ELSE LET t2 == SignedArith(WideMul(t1.val, WideFromInt(n)), I32Bytes, checks)
                  IN  IF ~IsVal(t2) THEN Panic ELSE Ok(t2.val)

\* n * (n + 1) * (2 * n + 1) / 3 in i64, with n = n_max as i64
PartitionCoord_total_capacity(n_max, checks) ==
    IF n_max < 1 THEN Val(WideFromInt(0))
    ELSE LET n  == WideFromInt(n_max)
             a  == SignedArith(WideAdd(n, WideFromInt(1)), I64Bytes, checks)
             b  == SignedArith(WideMul(n, a.val), I64Bytes, checks)
             c  == SignedArith(WideMul(WideFromInt(2), n), I64Bytes, checks)
             d  == SignedArith(WideAdd(c.val, WideFromInt(1)), I64Bytes, checks)
             e  == SignedArith(WideMul(b.val, d.val), I64Bytes, checks)
         IN  IF ~IsVal(a) THEN Panic
             ELSE IF ~IsVal(b) THEN Panic
             ELSE IF ~IsVal(c) THEN Panic
             ELSE IF ~IsVal(d) THEN Panic
             ELSE IF ~IsVal(e) THEN Panic
             ELSE Val(WideDivSmall(e.val, 3))

\* for l_val in 0..l { l_offset += 2 * (2 * l_val as i64 + 1); }
RECURSIVE LOffset(_)
LOffset(l) == IF l <= 0 THEN 0 ELSE LOffset(l - 1) + 2 * (2 * (l - 1) + 1)

PartitionCoord_to_linear_index(c, checks) ==
    LET offset   == PartitionCoord_total_capacity(c.n - 1, checks)
        l_offset == WideFromInt(LOffset(c.l))
        m_plus_l == SignedArith(WideAdd(WideFromInt(c.m), WideFromInt(c.l)), I32Bytes, checks)
        s_offset == WideFromInt(IF c.s = "Down" THEN 0 ELSE 1)
        sum1     == SignedArith(WideAdd(offset.val, l_offset), I64Bytes, checks)
        twice_m  == SignedArith(WideMul(WideFromInt(2), m_plus_l.val), I64Bytes, checks)
        sum2     == SignedArith(WideAdd(sum1.val, twice_m.val), I64Bytes, checks)
        sum3     == SignedArith(WideAdd(sum2.val, s_offset), I64Bytes, checks)
    IN  IF ~IsVal(offset) THEN Panic
        ELSE IF ~IsVal(m_plus_l) THEN Panic
        ELSE IF ~IsVal(sum1) THEN Panic
        ELSE IF ~IsVal(twice_m) THEN Panic
        ELSE IF ~IsVal(sum2) THEN Panic
        ELSE sum3

\* let mut n = 1; while Self::total_capacity(n) <= index { n += 1; }
RECURSIVE FindLevel(_, _, _)
FindLevel(index, n, checks) ==
    LET tc == PartitionCoord_total_capacity(n, checks)
    IN  IF ~IsVal(tc) THEN Panic
        ELSE IF WideLe(tc.val, index)
             THEN LET n1 == SignedArith(WideAdd(WideFromInt(n), WideFromInt(1)), I32Bytes, checks)
                  IN  IF ~IsVal(n1) THEN Panic ELSE FindLevel(index, WideToInt(n1.val), checks)
        ELSE Val(n)

\* loop { let states_at_l = 2 * (2 * l as i64 + 1); if remaining < states_at_l { break; } ... }
RECURSIVE FindL(_, _)
FindL(remaining, l) ==
    LET states_at_l == 2 * (2 * l + 1)
    IN  IF remaining < states_at_l THEN [remaining |-> remaining, l |-> l]
        ELSE FindL(remaining - states_at_l, l + 1)

PartitionCoord_from_linear_index(index, checks) ==
    IF index.neg THEN Err("InvalidIndex", <<index>>)
    ELSE LET n == FindLevel(index, 1, checks)
             before == PartitionCoord_total_capacity(n.val - 1, checks)
             remaining == SignedArith(WideSub(index, before.val), I64Bytes, checks)
             found == FindL(WideToInt(remaining.val), 0)
             m == (found.remaining \div 2) - found.l
             s == IF found.remaining % 2 = 0 THEN "Down" ELSE "Up"
         IN  IF ~IsVal(n) THEN Panic
             ELSE IF ~IsVal(before) THEN Panic
             ELSE IF ~IsVal(remaining) THEN Panic
             ELSE PartitionCoord_new(n.val, found.l, m, s)

\* the coordinates satisfying the range constraints, up to level n_max
ValidPartitionCoord(c) ==
    c.n >= 1 /\ 0 <= c.l /\ c.l < c.n /\ -c.l <= c.m /\ c.m <= c.l /\ c.s \in Spins

ValidCoordsUpTo(n_max) ==
    {c \in [n : 1..n_max, l : 0..(n_max - 1), m : (1 - n_max)..(n_max - 1), s : Spins] :
        ValidPartitionCoord(c)}

\* Spin::value in halves
Spin_value(s) == IF s = "Down" THEN -1 ELSE 1

\* categorical_distance: the differences of n, l and m are taken in i32 and
\* converted to f64; the result is the square root of radicand, the sum of
\* the four squares
PartitionCoord_categorical_distance(self, other, checks) ==
    LET dn == SignedArith(WideSub(WideFromInt(self.n), WideFromInt(other.n)), I32Bytes, checks)
        dl == SignedArith(WideSub(WideFromInt(self.l), WideFromInt(other.l)), I32Bytes, checks)
        dm == SignedArith(WideSub(WideFromInt(self.m), WideFromInt(other.m)), I32Bytes, checks)
        ds == WideFromInt((Spin_value(self.s) - Spin_value(other.s)) \div 2)
    IN  IF ~IsVal(dn) \/ ~IsVal(dl) \/ ~IsVal(dm) THEN Panic
        ELSE Val([radicand |->
                     WideAdd(WideAdd(WideMul(dn.val, dn.val), WideMul(dl.val, dl.val)),
                             WideAdd(WideMul(dm.val, dm.val), WideMul(ds, ds)))])

\* (d - 1.0).abs() < 1e-10 for d the square root of an integer: the radicand is 1
PartitionCoord_is_adjacent(self, other, checks) ==
    LET d == PartitionCoord_categorical_distance(self, other, checks)
    IN  IF ~IsVal(d) THEN Panic ELSE Val(d.val.radicand = WideFromInt(1))

\* for m in -l..=l { push (n, l, m, Down); push (n, l, m, Up) }
RECURSIVE CoordsOfL(_, _, _)
CoordsOfL(n, l, m) ==
    IF m > l THEN <<>>
    ELSE <<PartitionCoord_new(n, l, m, "Down").val, PartitionCoord_new(n, l, m, "Up").val>>
             \o CoordsOfL(n, l, m + 1)

\* for l in 0..n
RECURSIVE CoordsFromL(_, _)
CoordsFromL(n, l) == IF l >= n THEN <<>> ELSE CoordsOfL(n, l, -l) \o CoordsFromL(n, l + 1)

\* all_coords_at_level: Vec::with_capacity(capacity(n)? as usize) panics with
\* 'capacity overflow' when the i32 is negative, which the cast turns into a
\* count above isize::MAX
PartitionCoord_all_coords_at_level(n, checks) ==
    IF n < 1 THEN Err("InvalidN", <<n>>)
    ELSE LET cap == PartitionCoord_capacity(n, checks)
         IN  IF cap.tag = "Panic" THEN Panic
             ELSE IF cap.tag = "Err" THEN cap
             ELSE IF cap.val.neg THEN Panic
             ELSE Ok(CoordsFromL(n, 0))

----------------------------------------------------------------------------
(* MentalState *)

MentalState_initial(s_coord, partition) ==
    [gamma |-> 50, gamma_f |-> 50, m |-> 0,
     s_coord |-> s_coord, partition |-> partition, timestamp |-> 0,
     p_decay |-> FxOne, t_decay |-> FxOne, trajectory |-> <<>>]

MentalState_default == MentalState_initial(None, None)

MentalState_validate_range(name, val) ==
    IF ~InUnit(val) THEN Err("OutOfBounds", <<name, val>>) ELSE Ok(<<>>)

MentalState_new(gamma, gamma_f, m) ==
    IF MentalState_validate_range("gamma", gamma).tag = "Err"
    THEN MentalState_validate_range("gamma", gamma)
    ELSE IF MentalState_validate_range("gamma_f", gamma_f).tag = "Err"
    THEN MentalState_validate_range("gamma_f", gamma_f)
    ELSE Ok([gamma |-> gamma, gamma_f |-> gamma_f, m |-> m,
             s_coord |-> None, partition |-> None, timestamp |-> 0,
             p_decay |-> FxOne, t_decay |-> FxOne, trajectory |-> <<>>])

\* C = P_decay * T_decay * gamma * gamma_f, kept exact at scale FxOne^4
MentalState_consciousness(st) ==
    IF IsNaN(st.p_decay) \/ IsNaN(st.t_decay) \/ IsNaN(st.gamma) \/ IsNaN(st.gamma_f)
    THEN NaN
    ELSE st.p_decay * st.t_decay * st.gamma * st.gamma_f

\* the consciousness operator of vb-operators, on four numbers
consciousness(p_decay, t_decay, gamma, gamma_f) ==
    IF IsNaN(p_decay) \/ IsNaN(t_decay) \/ IsNaN(gamma) \/ IsNaN(gamma_f)
    THEN NaN
    ELSE p_decay * t_decay * gamma * gamma_f

\* exp(x) for x in hundredths, to the nearest hundredth, tabulated for the
\* quotients -dt / tau the model draws; below -745.2 the f64 result is 0.0
ExpFx(x) ==
    IF x <= -74600 THEN 0
    ELSE CASE x = -100 -> 37
           [] x = -50 -> 61
           [] x = -40 -> 67
           [] x = -20 -> 82
           [] x = -10 -> 90
           [] x = 0 -> 100
           [] x = 10 -> 111
           [] x = 20 -> 122

\* value * factor for a decay level; the f64 product of two positive numbers
\* of these magnitudes is positive, so rounding to hundredths stops at 0.01
DecayMul(value, factor) ==
    IF IsNaN(value) THEN NaN
    ELSE IF value > 0 /\ factor > 0 /\ FMul(value, factor) = 0 THEN 1
    ELSE FMul(value, factor)

MentalState_decay_perception(st, tau_p, dt) ==
    [st EXCEPT !.p_decay = DecayMul(st.p_decay, ExpFx((-dt * FxOne) \div tau_p)),
               !.timestamp = st.timestamp + dt]

MentalState_decay_thought(st, tau_t, dt) ==
    [st EXCEPT !.t_decay = DecayMul(st.t_decay, ExpFx((-dt * FxOne) \div tau_t)),
               !.timestamp = st.timestamp + dt]

\* enter_dream advancing the timestamp as the decays do
MentalState_enter_dream_Stamped(st) ==
    [st EXCEPT !.p_decay = 0, !.timestamp = st.timestamp + 1]

MentalState_enter_dream(st) == [st EXCEPT !.p_decay = 0]

\* wake storing the level as given
MentalState_wake_unclamped(st, perception_level) ==
    [st EXCEPT !.p_decay = perception_level]

MentalState_wake(st, perception_level) ==
    [st EXCEPT !.p_decay = Clamp01(perception_level)]

MentalState_with_gamma(st, gamma) == [st EXCEPT !.gamma = Clamp01(gamma)]

MentalState_with_gamma_f(st, gamma_f) == [st EXCEPT !.gamma_f = Clamp01(gamma_f)]

\* transition_to pushing the coordinate it adopts
MentalState_transition_to_AppendsNew(st, s) ==
    [st EXCEPT !.trajectory = Append(st.trajectory, s), !.s_coord = Some(s)]

MentalState_transition_to(st, s) ==
    [st EXCEPT !.trajectory = IF IsSome(st.s_coord)
                              THEN Append(st.trajectory, Unwrap(st.s_coord))
                              ELSE st.trajectory,
               !.s_coord = Some(s)]

\* the range constraints of a MentalState
ValidMentalState(st) ==
    /\ InUnit(st.gamma) /\ InUnit(st.gamma_f)
    /\ IsSome(st.s_coord) => ValidSCoord(Unwrap(st.s_coord))
    /\ IsSome(st.partition) => ValidPartitionCoord(Unwrap(st.partition))

----------------------------------------------------------------------------
(* KuramotoState and the Kuramoto operators.                                *)
(* The phases and the natural frequencies are random reals that only the    *)
(* coherence reads, so an Array1<f64> is kept as a sequence of placeholders *)
(* of its length, and the coherence of a non-empty array is an input of the *)
(* operations that read it.  The coupling strength is kept as the sequence  *)
(* of factors applied to the (non-negative) value it was constructed with.  *)

Array1(n) == [i \in 1..n |-> "f64"]

KuramotoState_new(phases, natural_frequencies, coupling_factors) ==
    [phases |-> phases,
     natural_frequencies |-> natural_frequencies,
     coupling_factors |-> coupling_factors]

KuramotoState_random(n_oscillators, coupling_factors) ==
    [phases |-> Array1(n_oscillators),
     natural_frequencies |-> Array1(n_oscillators),
     coupling_factors |-> coupling_factors]

KuramotoState_n_oscillators(self) == Len(self.phases)

\* The shape of &state.phases + &(&d_phases * dt).  Arrays of equal length add
\* element by element and an array of length 1 is stretched to the other
\* length; ndarray versions that broadcast only the right operand (not
\* co_broadcast) panic when it is the left one that would have to stretch.
BroadcastSum(left, right, co_broadcast) ==
    IF Len(left) = Len(right) THEN Val(left)
    ELSE IF Len(right) = 1 THEN Val(left)
    ELSE IF Len(left) = 1 /\ co_broadcast THEN Val(Array1(Len(right)))
    ELSE Panic

\* kuramoto: d_phases is a clone of the natural frequencies, d_phases[i] is
\* written for every i < n (a panic when it is shorter than the phases), and
\* the new phases are the broadcast sum
kuramoto(state, co_broadcast) ==
    LET n == KuramotoState_n_oscillators(state)
        d_phases == state.natural_frequencies
    IN  IF n > Len(d_phases) THEN Panic
        ELSE LET new_phases == BroadcastSum(state.phases, d_phases, co_broadcast)
             IN  IF ~IsVal(new_phases) THEN Panic
                 ELSE Val([phases |-> new_phases.val,
                           natural_frequencies |-> state.natural_frequencies,
                           coupling_factors |-> state.coupling_factors])

\* 1.0 - k_agg * drug_concentration as a percentage, floored at zero with the
\* product (the coupling strength is not negative)
DrugFactor(drug_concentration, k_agg) ==
    IF FxOne - FMul(k_agg, drug_concentration) < 0 THEN 0
    ELSE FxOne - FMul(k_agg, drug_concentration)

kuramoto_with_drug(state, drug_concentration, k_agg, co_broadcast) ==
    kuramoto([phases |-> state.phases,
              natural_frequencies |-> state.natural_frequencies,
              coupling_factors |-> Append(state.coupling_factors,
                                          DrugFactor(drug_concentration, k_agg))],
             co_broadcast)

\* the values coherence(&phases) can take: the mean of no unit vectors is
\* 0.0 / 0.0, otherwise the length of a mean of unit vectors
CoherenceValues(phases) == IF Len(phases) = 0 THEN {NaN} ELSE {70, 100}

----------------------------------------------------------------------------
(* PoincareComputer *)

\* the time constants passed to the decays by compute_consciousness, 0.05 and 0.1
TauP == 5
TauT == 10

Abs(x) == IF x < 0 THEN -x ELSE x

\* (c - target_consciousness).abs() < 0.01 taken as within twice the tolerance
Converged_Loose(c, target_consciousness) ==
    /\ ~IsNaN(c) /\ ~IsNaN(target_consciousness)
    /\ Abs(c - target_consciousness * FxOne * FxOne * FxOne) < 2 * FxOne * FxOne * FxOne

\* (c - target_consciousness).abs() < 0.01, c at scale FxOne^4
Converged(c, target_consciousness) ==
    /\ ~IsNaN(c) /\ ~IsNaN(target_consciousness)
    /\ Abs(c - target_consciousness * FxOne * FxOne * FxOne) < FxOne * FxOne * FxOne

BelowTarget_Never(c, target_consciousness) == FALSE

\* c < target_consciousness
BelowTarget(c, target_consciousness) ==
    /\ ~IsNaN(c) /\ ~IsNaN(target_consciousness)
    /\ c < target_consciousness * FxOne * FxOne * FxOne

\* The loop of compute_consciousness from iteration iter on.  The coherence r
\* of the oscillator network after each step depends on its random phases and
\* is an input: rs[iter + 1] is the coherence read in iteration iter.
RECURSIVE ComputeLoop(_, _, _, _, _, _, _, _, _)
ComputeLoop(state, target_consciousness, max_iterations, dt, rs, iter, convergence, trajectory, factors) ==
    IF iter >= max_iterations
    THEN [result |-> [success |-> FALSE,
                      final_state |-> state,
                      iterations |-> max_iterations,
                      convergence_history |-> convergence,
                      trajectory |-> trajectory,
                      metadata |-> {<<"reason", "max_iterations">>}],
          coupling_factors |-> factors]
    ELSE LET with_r == MentalState_with_gamma(state, rs[iter + 1])
             decayed_p == MentalState_decay_perception(with_r, TauP, dt)
             decayed == MentalState_decay_thought(decayed_p, TauT, dt)
             c == MentalState_consciousness(decayed)
         IN  IF Converged(c, target_consciousness)
             THEN [result |-> [success |-> TRUE,
                               final_state |-> decayed,
                               iterations |-> iter + 1,
                               convergence_history |-> Append(convergence, c),
                               trajectory |-> trajectory,
                               metadata |-> {}],
                   coupling_factors |-> factors]
             ELSE ComputeLoop(decayed, target_consciousness, max_iterations, dt, rs,
                              iter + 1, Append(convergence, c), trajectory,
                              Append(factors, IF BelowTarget(c, target_consciousness)
                                              THEN 101 ELSE 99))

PoincareComputer_compute_consciousness(factors, initial_state, target_consciousness, max_iterations, dt, rs) ==
    ComputeLoop(initial_state, target_consciousness, max_iterations, dt, rs, 0, <<>>,
                IF IsSome(initial_state.s_coord)
                THEN <<Unwrap(initial_state.s_coord)>> ELSE <<>>,
                factors)

\* PoincareComputer::new: no history, a random network of n_oscillators
PoincareComputer_new(n_oscillators, coupling_factors) ==
    [kuramoto_state |-> KuramotoState_random(n_oscillators, coupling_factors),
     state_history |-> <<>>]

\* (duration / dt) as usize: the cast truncates toward zero and saturates, a
\* negative quotient and NaN to 0 and +inf to usize::MAX
NSteps(duration, dt) ==
    IF dt = 0 THEN (IF duration > 0 THEN [tag |-> "usize::MAX"] ELSE Val(0))
    ELSE IF (duration < 0) # (dt < 0) THEN Val(0)
    ELSE Val(Abs(duration) \div Abs(dt))

\* one pass of the loop body of run_simulation on the mental state
SimulationStep(state, r, dt) ==
    LET with_r == MentalState_with_gamma(state, r)
        decayed_p == MentalState_decay_perception(with_r, TauP, dt)
        decayed == MentalState_decay_thought(decayed_p, TauT, dt)
    IN  [decayed EXCEPT !.timestamp = @ + dt]

\* the states pushed by the loop of run_simulation from step k on
RECURSIVE SimulationLoop(_, _, _, _, _, _)
SimulationLoop(state, dt, rs, k, n_steps, states) ==
    IF k >= n_steps THEN states
    ELSE SimulationLoop(SimulationStep(state, rs[k + 1], dt), dt, rs, k + 1, n_steps,
                        Append(states, SimulationStep(state, rs[k + 1], dt)))

\* run_simulation: Vec::with_capacity(n_steps) panics with a capacity overflow
\* for usize::MAX elements; rs[k] is the coherence read in step k
PoincareComputer_run_simulation(self, initial_state, duration, dt, rs, co_broadcast) ==
    LET n_steps == NSteps(duration, dt)
        advanced == kuramoto(self.kuramoto_state, co_broadcast)
    IN  IF ~IsVal(n_steps) THEN [ret |-> Panic, self |-> self]
        ELSE IF n_steps.val = 0
             THEN [ret |-> Val(<<>>), self |-> [self EXCEPT !.state_history = <<>>]]
        ELSE IF ~IsVal(advanced) THEN [ret |-> Panic, self |-> self]
        ELSE LET states == SimulationLoop(initial_state, dt, rs, 0, n_steps.val, <<>>)
             IN  [ret |-> Val(states),
                  self |-> [kuramoto_state |-> advanced.val, state_history |-> states]]

PoincareComputer_dream_simulation(self, initial_state, duration, dt, rs, co_broadcast) ==
    PoincareComputer_run_simulation(self, MentalState_enter_dream(initial_state),
                                    duration, dt, rs, co_broadcast)

\* apply_drug_perturbation; r is the coherence read after the step
PoincareComputer_apply_drug_perturbation(self, state, concentration, k_agg, r, co_broadcast) ==
    LET advanced == kuramoto_with_drug(self.kuramoto_state, concentration, k_agg, co_broadcast)
    IN  IF ~IsVal(advanced) THEN [ret |-> Panic, self |-> self]
        ELSE [ret |-> Val(MentalState_with_gamma(state, r)),
              self |-> [self EXCEPT !.kuramoto_state = advanced.val]]

PoincareComputer_reset_kuramoto(self) ==
    [self EXCEPT !.kuramoto_state =
                     KuramotoState_random(KuramotoState_n_oscillators(self.kuramoto_state),
                                          self.kuramoto_state.coupling_factors)]

PoincareComputer_state_history(self) == self.state_history

MentalState_with_memory(st, m) == [st EXCEPT !.m = m]

\* new_state.m += dh_dt.abs() * dt
MentalState_update_memory(st, dh_dt, dt) ==
    [st EXCEPT !.m = FAdd(st.m, FMul(IF IsNaN(dh_dt) THEN NaN ELSE Abs(dh_dt), dt))]

\* curve * (-dt / tau).exp() + input_rate * dt
decay_evolve(curve, tau, dt, input_rate) ==
    FAdd(DecayMul(curve, ExpFx((-dt * FxOne) \div tau)), FMul(input_rate, dt))

evolve_mental_state(state, dt, perception_input, thought_input, dh_dt) ==
    [state EXCEPT
        !.m = FAdd(state.m, FMul(IF IsNaN(dh_dt) THEN NaN ELSE Abs(dh_dt), dt)),
        !.timestamp = state.timestamp + dt,
        !.p_decay = Clamp01(decay_evolve(state.p_decay, TauP, dt, perception_input)),
        !.t_decay = Clamp01(decay_evolve(state.t_decay, TauT, dt, thought_input))]

----------------------------------------------------------------------------
(* StateManager *)

\* push that keeps the oldest entries once the cap is reached
PushTrim_KeepOldest(h, x, cap) ==
    IF Len(h) >= cap THEN h ELSE Append(h, x)

\* self.history.push(x); if self.history.len() > self.max_history { self.history.remove(0); }
PushTrim(h, x, cap) ==
    LET pushed == Append(h, x)
    IN  IF Len(pushed) > cap THEN Tail(pushed) ELSE pushed

\* arguments the operations are called with
TargetCoords == {SCoord_origin, SCoord_new_unchecked(80, 80, 80)}
GammaArgs == {None, Some(90)}
GammaFArgs == {None, Some(150)}
WakeLevels == {90, 150}
InitCoords == {None, Some(SCoord_origin)}
InitPartitions == {None}

\* no pure function has been called
NoCall == [op |-> "none", args |-> <<>>, ret |-> <<>>]

\* no call is in progress
NoFrame == [pc |-> "idle"]

\* the oscillator network of a PoincareComputer that is not operated on
KuramotoInitial == KuramotoState_random(2, <<>>)
CallIdle ==
    /\ call = NoCall
    /\ overflow_checks = TRUE
    /\ kuramoto_state = KuramotoInitial
    /\ state_history = <<>>
    /\ frame = NoFrame

\* StateManager::new(max_history)
SMInit ==
    /\ max_history \in 0..MaxHistoryBound
    /\ current_state = MentalState_default
    /\ history = <<>>
    /\ appended = <<>>
    /\ fifo_scope = FALSE
    /\ n_ops = 0

\* the call and its result, self.current_state before the call first
SMReturned(op, args, ret) ==
    /\ call' = [op |-> op, args |-> <<current_state>> \o args, ret |-> Val(ret)]
    /\ UNCHANGED <<overflow_checks, kuramoto_state, state_history, frame>>

initialize(s_coord, partition) ==
    /\ n_ops < MaxOps
    /\ current_state' = MentalState_initial(s_coord, partition)
    /\ history' = <<MentalState_initial(s_coord, partition)>>
    /\ appended' = <<MentalState_initial(s_coord, partition)>>
    /\ fifo_scope' = TRUE
    /\ n_ops' = n_ops + 1
    /\ SMReturned("initialize", <<s_coord, partition>>, <<>>)
    /\ UNCHANGED max_history

TransitionState(st, target_s_coord, new_gamma, new_gamma_f) ==
    LET s1 == MentalState_transition_to(st, target_s_coord)
        s2 == IF IsSome(new_gamma) THEN MentalState_with_gamma(s1, Unwrap(new_gamma)) ELSE s1
        s3 == IF IsSome(new_gamma_f) THEN MentalState_with_gamma_f(s2, Unwrap(new_gamma_f)) ELSE s2
    IN  s3

TransitionResult_NoDistance(from_state, target_s_coord) ==
    [success |-> TRUE, from_state |-> from_state, to_state |-> target_s_coord,
     distance |-> 0, metadata |-> {}]

\* the TransitionResult of transition
TransitionResult(from_state, target_s_coord) ==
    [success |-> TRUE,
     from_state |-> from_state,
     to_state |-> target_s_coord,
     distance |-> IF IsSome(from_state)
                  THEN SCoord_distance(Unwrap(from_state), target_s_coord) ELSE 0,
     metadata |-> {}]

\* the TransitionResult of enter_dream_mode and wake_up
ModeResult(from_state, state, mode) ==
    [success |-> TRUE,
     from_state |-> from_state,
     to_state |-> IF IsSome(state.s_coord) THEN Unwrap(state.s_coord) ELSE SCoord_origin,
     distance |-> 0,
     metadata |-> {<<"mode", mode>>}]

transition(target_s_coord, new_gamma, new_gamma_f) ==
    LET new_state == TransitionState(current_state, target_s_coord, new_gamma, new_gamma_f)
    IN  /\ n_ops < MaxOps
        /\ history' = PushTrim(history, new_state, max_history)
        /\ current_state' = new_state
        /\ appended' = Append(appended, new_state)
        /\ n_ops' = n_ops + 1
        /\ SMReturned("transition", <<target_s_coord, new_gamma, new_gamma_f>>,
                      TransitionResult(current_state.s_coord, target_s_coord))
        /\ UNCHANGED <<max_history, fifo_scope>>

enter_dream_mode ==
    LET new_state == MentalState_enter_dream(current_state)
    IN  /\ n_ops < MaxOps
        /\ current_state' = new_state
        /\ history' = PushTrim(history, new_state, max_history)
        /\ appended' = Append(appended, new_state)
        /\ n_ops' = n_ops + 1
        /\ SMReturned("enter_dream_mode", <<>>,
                      ModeResult(current_state.s_coord, new_state, "dream"))
        /\ UNCHANGED <<max_history, fifo_scope>>

wake_up(perception_level) ==
    LET new_state == MentalState_wake(current_state, perception_level)
    IN  /\ n_ops < MaxOps
        /\ current_state' = new_state
        /\ history' = PushTrim(history, new_state, max_history)
        /\ appended' = Append(appended, new_state)
        /\ n_ops' = n_ops + 1
        /\ SMReturned("wake_up", <<perception_level>>,
                      ModeResult(current_state.s_coord, new_state, "awake"))
        /\ UNCHANGED <<max_history, fifo_scope>>

clear_history ==
    /\ n_ops < MaxOps
    /\ history' = <<current_state>>
    /\ appended' = <<current_state>>
    /\ fifo_scope' = FALSE
    /\ n_ops' = n_ops + 1
    /\ SMReturned("clear_history", <<>>, <<>>)
    /\ UNCHANGED <<max_history, current_state>>

Initialize == \E s \in InitCoords, p \in InitPartitions : n_ops < MaxOps /\ initialize(s, p)
Transition == \E t \in TargetCoords, g \in GammaArgs, gf \in GammaFArgs : n_ops < MaxOps /\ transition(t, g, gf)
EnterDreamMode == enter_dream_mode
WakeUp == \E lvl \in WakeLevels : n_ops < MaxOps /\ wake_up(lvl)
ClearHistory == clear_history

Init == SMInit /\ CallIdle

Next == Initialize \/ Transition \/ EnterDreamMode \/ WakeUp \/ ClearHistory

Spec == Init /\ [][Next]_vars

----------------------------------------------------------------------------
(* Claims about the StateManager *)

Min(a, b) == IF a < b THEN a ELSE b

\* the last k elements of s, in order
LastN(s, k) == SubSeq(s, Len(s) - k + 1, Len(s))

\* C1: in every state reachable through the StateManager operations, for every
\* max_history >= 0, history().len() <= max_history.
C1_HistoryWithinCap == Len(history) <= max_history

\* C2: after initialize followed by transition / enter_dream_mode / wake_up calls,
\* history is the most recently appended min(appended count, max_history)
\* snapshots, in append order.
C2_HistoryIsFifoTail ==
    fifo_scope => history = LastN(appended, Min(Len(appended), max_history))

----------------------------------------------------------------------------
(* Calls of the PartitionCoord functions *)

\* a StateManager that is not operated on
SMIdle ==
    /\ max_history = 0
    /\ current_state = MentalState_default
    /\ history = <<>>
    /\ appended = <<>>
    /\ fifo_scope = FALSE
    /\ n_ops = 0

\* largest partition level and largest linear index drawn from the small range
LevelBound == 4
IndexBound == 60

\* levels around the limits of the integer types, besides the small ones
LevelArgs == (-1..LevelBound) \cup {32767, 32768, 1664510, 1664511, 2147483647}
ComponentArgs == (-1..LevelBound)
IndexArgs == {WideFromInt(i) : i \in -2..IndexBound}
CoordArgs == ValidCoordsUpTo(LevelBound)
                 \cup {[n |-> 1664512, l |-> 0, m |-> 0, s |-> "Down"],
                       [n |-> 2147483647, l |-> 0, m |-> 0, s |-> "Down"]}
SpinArgs == {F64Arg(-50, 0), F64Arg(50, 0), F64Arg(50, 5), F64Arg(-50, -9),
             F64Arg(50, 10), F64Arg(0, 0), F64Arg(100, 0)}

\* one call per behaviour: the functions are pure.  Every action states the
\* enabling condition in front of the call it records, so that the argument
\* and result values of a step are evaluated in that step.
Returned(op, args, ret) ==
    /\ call = NoCall
    /\ call' = [op |-> op, args |-> args, ret |-> ret]
    /\ UNCHANGED <<overflow_checks, kuramoto_state, state_history, frame, smVars>>

CallCapacity ==
    \E n \in LevelArgs :
        call = NoCall /\ Returned("capacity", <<n>>, PartitionCoord_capacity(n, overflow_checks))

CallTotalCapacity ==
    \E n_max \in LevelArgs :
        call = NoCall /\ Returned("total_capacity", <<n_max>>,
                 PartitionCoord_total_capacity(n_max, overflow_checks))

CallNew ==
    \E n \in ComponentArgs, l \in ComponentArgs, m \in -LevelBound..LevelBound, sp \in Spins :
        call = NoCall /\ Returned("new", <<n, l, m, sp>>, PartitionCoord_new(n, l, m, sp))

CallFromComponents ==
    \E n \in ComponentArgs, l \in ComponentArgs, m \in -1..1, s_val \in SpinArgs :
        call = NoCall /\ Returned("from_components", <<n, l, m, s_val>>,
                 PartitionCoord_from_components(n, l, m, s_val))

CallToLinearIndex ==
    \E c \in CoordArgs :
        call = NoCall /\ Returned("to_linear_index", <<c>>,
                 PartitionCoord_to_linear_index(c, overflow_checks))

CallFromLinearIndex ==
    \E i \in IndexArgs :
        call = NoCall /\ Returned("from_linear_index", <<i>>,
                 PartitionCoord_from_linear_index(i, overflow_checks))

\* coordinates up to level 2 and two of level i32::MAX whose m differ by more
\* than i32::MAX
DistanceCoords ==
    ValidCoordsUpTo(2)
        \cup {[n |-> 2147483647, l |-> 2147483646, m |-> 2147483646, s |-> "Up"],
               [n |-> 2147483647, l |-> 2147483646, m |-> -2147483646, s |-> "Up"]}

CallCategoricalDistance ==
    \E a \in DistanceCoords, b \in DistanceCoords :
        call = NoCall /\ Returned("categorical_distance", <<a, b>>,
                 PartitionCoord_categorical_distance(a, b, overflow_checks))

CallIsAdjacent ==
    \E a \in DistanceCoords, b \in DistanceCoords :
        call = NoCall /\ Returned("is_adjacent", <<a, b>>, PartitionCoord_is_adjacent(a, b, overflow_checks))

\* levels -1..LevelBound and the first level whose capacity is not an i32
CallAllCoordsAtLevel ==
    \E n \in (-1..LevelBound) \cup {32768} :
        call = NoCall /\ Returned("all_coords_at_level", <<n>>,
                 PartitionCoord_all_coords_at_level(n, overflow_checks))

PartitionInit ==
    /\ SMIdle
    /\ call = NoCall
    /\ kuramoto_state = KuramotoInitial
    /\ state_history = <<>>
    /\ frame = NoFrame
    /\ overflow_checks \in BOOLEAN

PartitionNext ==
    \/ CallCapacity
    \/ CallTotalCapacity
    \/ CallNew
    \/ CallFromComponents
    \/ CallToLinearIndex
    \/ CallFromLinearIndex
    \/ CallCategoricalDistance
    \/ CallIsAdjacent
    \/ CallAllCoordsAtLevel

SpecPartition == PartitionInit /\ [][PartitionNext]_vars

----------------------------------------------------------------------------
(* Claims about PartitionCoord *)

\* C3: linear indexing is a bijection: from_linear_index(i) succeeds for every
\* i >= 0 and to_linear_index gives i back, from_linear_index(to_linear_index(c))
\* is c for every valid coordinate c, and from_linear_index fails with
\* InvalidIndex for every i < 0.
C3_LinearIndexBijection ==
    /\ call.op = "from_linear_index" =>
          IF call.args[1].neg
          THEN IsErr(call.ret, "InvalidIndex", <<call.args[1]>>)
          ELSE /\ call.ret.tag = "Ok"
               /\ PartitionCoord_to_linear_index(call.ret.val, overflow_checks)
                      = Val(call.args[1])
    /\ call.op = "to_linear_index" =>
          /\ call.ret.tag = "Val"
          /\ PartitionCoord_from_linear_index(call.ret.val, overflow_checks)
                 = Ok(call.args[1])

\* the sum of 2*i*i for i = 1..n, exactly: term by term for the small levels,
\* by the closed form n(n+1)(2n+1)/3 beyond them
RECURSIVE SumOfCapacities(_)
SumOfCapacities(n) == IF n < 1 THEN 0 ELSE SumOfCapacities(n - 1) + 2 * n * n

ExactTotalCapacity(n) ==
    IF n <= LevelBound + 1 THEN WideFromInt(SumOfCapacities(n))
    ELSE WideDivSmall(WideMul(WideMul(WideFromInt(n), WideAdd(WideFromInt(n), WideFromInt(1))),
                              WideAdd(WideMul(WideFromInt(2), WideFromInt(n)), WideFromInt(1))),
                      3)

\* C4: capacity(n) is exactly 2*n*n for every i32 n >= 1 and fails with InvalidN
\* for n < 1; total_capacity(n_max) is the sum of 2*i*i for i = 1..n_max for
\* every i32 n_max, without failing or overflowing.
C4_CapacityExact ==
    /\ call.op = "capacity" =>
          IF call.args[1] < 1
          THEN IsErr(call.ret, "InvalidN", <<call.args[1]>>)
          ELSE /\ call.ret.tag = "Ok"
               /\ call.ret.val = WideMul(WideFromInt(2),
                                         WideMul(WideFromInt(call.args[1]),
                                                 WideFromInt(call.args[1])))
    /\ call.op = "total_capacity" =>
          /\ call.ret.tag = "Val"
          /\ call.ret.val = ExactTotalCapacity(call.args[1])

\* what the constructor contract prescribes for components n, l, m and spin s
ContractOfNew(ret, n, l, m, s) ==
    /\ ret.tag = "Ok" <=> (n >= 1 /\ 0 <= l /\ l < n /\ -l <= m /\ m <= l)
    /\ ret.tag = "Ok" => ret.val = [n |-> n, l |-> l, m |-> m, s |-> s]
    /\ n < 1 => IsErr(ret, "InvalidN", <<n>>)
    /\ (n >= 1 /\ (l < 0 \/ l >= n)) => IsErr(ret, "InvalidL", <<l, n>>)
    /\ (n >= 1 /\ 0 <= l /\ l < n /\ (m < -l \/ m > l)) => IsErr(ret, "InvalidM", <<m, l>>)

\* C5 (as stated): from_components returns InvalidSpin whenever the spin value
\* is not +0.5 or -0.5.
C5_SpinExactlyHalf ==
    call.op = "from_components" =>
        LET v == call.args[4]
        IN  ~(v.eps = 0 /\ v.base \in {-50, 50}) => IsErr(call.ret, "InvalidSpin", <<v>>)

\* C5 (amended): new returns Ok exactly for n >= 1, 0 <= l < n, -l <= m <= l and
\* otherwise the error of the first offending component in the order n, l, m;
\* from_components returns InvalidSpin, before looking at n, l and m, exactly
\* when the spin value is not within 1e-10 of +0.5 or -0.5, and otherwise behaves
\* as new with the spin the value is near to; an error carries no coordinate.
C5_ConstructorErrors ==
    /\ call.op = "new" =>
          ContractOfNew(call.ret, call.args[1], call.args[2], call.args[3], call.args[4])
    /\ call.op = "from_components" =>
          LET v == call.args[4]
              near == v.eps > -SpinTolerance /\ v.eps < SpinTolerance
          IN  IF near /\ v.base = 50
              THEN ContractOfNew(call.ret, call.args[1], call.args[2], call.args[3], "Up")
              ELSE IF near /\ v.base = -50
              THEN ContractOfNew(call.ret, call.args[1], call.args[2], call.args[3], "Down")
              ELSE IsErr(call.ret, "InvalidSpin", <<v>>)
    /\ (call.op \in {"new", "from_components"} /\ call.ret.tag = "Err") =>
          "val" \notin DOMAIN call.ret

\* a spin value off +0.5 by less than the tolerance was accepted, and a call
\* with an invalid l was rejected
C5_Witness ==
    /\ call.op = "from_components"
    /\ call.args[4] = F64Arg(50, 5)
    /\ call.args[1] = 1 /\ call.args[2] = 1
    /\ IsErr(call.ret, "InvalidL", <<1, 1>>)

----------------------------------------------------------------------------
(* Calls of TernaryAddr::encode and TernaryAddr::decode *)

\* largest depth drawn from the small range
DepthBound == 3

\* 3^40 is the largest power of three a u64 holds
DepthArgs == (0..DepthBound) \cup {40, 41}
ValueArgs == {WideFromInt(v) : v \in 0..(Pow3(DepthBound) + 1)}
                 \cup {Wide(FALSE, MagSub(MagPow3(40), <<1>>)),
                       Wide(FALSE, MagPow3(40)),
                       Wide(FALSE, [i \in 1..U64Bytes |-> 255])}
DigitSeqsUpTo(d) == UNION {[1..k -> {0, 1, 2}] : k \in 0..d}
AddrArgs == {[digits |-> q] : q \in DigitSeqsUpTo(DepthBound)}
                \cup {[digits |-> [i \in 1..k |-> 2]] : k \in {40, 41}}

CallEncode ==
    \E value \in ValueArgs, depth \in DepthArgs :
        call = NoCall /\ Returned("encode", <<value, depth>>,
                 TernaryAddr_encode(value, depth, overflow_checks))

CallDecode ==
    \E a \in AddrArgs :
        call = NoCall /\ Returned("decode", <<a>>, TernaryAddr_decode(a, overflow_checks))

TernaryInit == PartitionInit

TernaryNext == CallEncode \/ CallDecode

SpecTernary == TernaryInit /\ [][TernaryNext]_vars

\* C7: encode and decode are mutually inverse at a fixed depth: for every depth
\* d and every v in [0, 3^d - 1], encode(v, d) succeeds with exactly d digits in
\* {0,1,2} and decode gives v back; for every valid address a,
\* encode(decode(a), depth(a)) is a; encode(v, d) fails with
\* ValueExceedsCapacity exactly when v > 3^d - 1.
C7_EncodeDecodeInverse ==
    /\ call.op = "encode" =>
          LET v == call.args[1]
              d == call.args[2]
              cap == Wide(FALSE, MagSub(MagPow3(d), <<1>>))
          IN  IF WideLe(v, cap)
              THEN /\ call.ret.tag = "Ok"
                   /\ Len(call.ret.val.digits) = d
                   /\ ValidTernaryAddr(call.ret.val)
                   /\ TernaryAddr_decode(call.ret.val, overflow_checks) = Val(v)
              ELSE call.ret.tag = "Err" /\ call.ret.err = "ValueExceedsCapacity"
    /\ call.op = "decode" =>
          /\ call.ret.tag = "Val"
          /\ TernaryAddr_encode(call.ret.val, Len(call.args[1].digits), overflow_checks)
                 = Ok(call.args[1])

----------------------------------------------------------------------------
(* Values built through the constructors and transformations of the core:  *)
(* call.ret is the value obtained last, and the transformations apply to it *)

\* longest chain of calls
CoreOps == 3

SCoordOps == {"SCoord::new", "SCoord::new_unchecked", "SCoord::from_frequency",
              "SCoord::origin", "SCoord::update", "SCoord::interpolate", "decode_scoord"}
TernaryOps == {"TernaryAddr::new", "TernaryAddr::new_unchecked", "TernaryAddr::encode",
               "TernaryAddr::from_float", "TernaryAddr::from_string",
               "TernaryAddr::navigate", "TernaryAddr::trisect", "TernaryAddr::parent",
               "TernaryAddr::root"}
PartitionOps == {"PartitionCoord::new", "PartitionCoord::from_components",
                 "PartitionCoord::from_linear_index", "PartitionCoord::default"}
MentalOps == {"MentalState::new", "MentalState::initial", "MentalState::with_gamma",
              "MentalState::with_gamma_f", "MentalState::wake",
              "MentalState::enter_dream", "MentalState::transition_to"}
\* the functions that are documented to skip validation
UncheckedOps == {"SCoord::new_unchecked", "TernaryAddr::new_unchecked"}

\* the values the last call returned
HeldValues ==
    IF call.op = "none" \/ call.ret.tag \notin {"Ok", "Val"} THEN {}
    ELSE IF call.op = "TernaryAddr::trisect"
         THEN {call.ret.val[1], call.ret.val[2], call.ret.val[3]}
    ELSE IF call.op = "TernaryAddr::parent"
         THEN (IF IsSome(call.ret.val) THEN {Unwrap(call.ret.val)} ELSE {})
    ELSE {call.ret.val}
Held(ops) == IF call.op \in ops THEN HeldValues ELSE {}

Produced(op, args, ret) ==
    /\ n_ops < CoreOps
    /\ n_ops' = n_ops + 1
    /\ call' = [op |-> op, args |-> args, ret |-> ret]
    /\ UNCHANGED <<max_history, current_state, history, appended, fifo_scope,
                   overflow_checks, kuramoto_state, state_history, frame>>

AxisArgs == {NaN, -50, 0, 60, 100, 150}
DeltaArgs == {NaN, -150, 50}
TArgs == {NaN, -10, 0, 50, 100, 110}
OtherCoords == {SCoord_equilibrium, SCoord_new_unchecked(150, 0, 0)}
DigitArgs == {<<>>, <<0>>, <<2, 1>>, <<3>>, <<1, 255>>}
StringArgs == {<<>>, <<"T">>, <<"T", "1", "2">>, <<"T", "9">>, <<"T", "x">>, <<"X", "1">>}
ShortAddrs == {TernaryAddr_root, [digits |-> <<1>>], [digits |-> <<2, 2>>]}
LevelInputs == {NaN, -50, 80, 150}

SCoordCalls ==
    \/ \E sk \in AxisArgs, st \in {0, 150}, se \in {100} :
          \/ n_ops < CoreOps /\ Produced("SCoord::new", <<sk, st, se>>, SCoord_new(sk, st, se))
          \/ n_ops < CoreOps /\ Produced("SCoord::new_unchecked", <<sk, st, se>>,
                      Val(SCoord_new_unchecked(sk, st, se)))
    \/ \E freq_exp \in {1, 12}, n_states \in {0, 1, 2, 4, 8} :
          n_ops < CoreOps /\ Produced("SCoord::from_frequency", <<freq_exp, n_states>>,
                   Val(SCoord_from_frequency(freq_exp, n_states)))
    \/ n_ops < CoreOps /\ Produced("SCoord::origin", <<>>, Val(SCoord_origin))
    \/ \E self \in Held(SCoordOps), d \in DeltaArgs :
          n_ops < CoreOps /\ Produced("SCoord::update", <<self, d, 0, 200>>, Val(SCoord_update(self, d, 0, 200)))
    \/ \E self \in Held(SCoordOps), other \in OtherCoords, t \in TArgs :
          n_ops < CoreOps /\ Produced("SCoord::interpolate", <<self, other, t>>,
                   SCoord_interpolate(self, other, t))
    \/ \E sk_addr \in Held(TernaryOps), st_addr \in ShortAddrs, se_addr \in ShortAddrs :
          n_ops < CoreOps /\ Produced("decode_scoord", <<sk_addr, st_addr, se_addr>>,
                   decode_scoord(sk_addr, st_addr, se_addr))

TernaryCalls ==
    \/ \E digits \in DigitArgs :
          \/ n_ops < CoreOps /\ Produced("TernaryAddr::new", <<digits>>, TernaryAddr_new(digits))
          \/ n_ops < CoreOps /\ Produced("TernaryAddr::new_unchecked", <<digits>>,
                      Val(TernaryAddr_new_unchecked(digits)))
    \/ \E v \in 0..4, depth \in 0..2 :
          n_ops < CoreOps /\ Produced("TernaryAddr::encode", <<WideFromInt(v), depth>>,
                   TernaryAddr_encode(WideFromInt(v), depth, overflow_checks))
    \/ \E value \in AxisArgs, depth \in 0..2 :
          n_ops < CoreOps /\ Produced("TernaryAddr::from_float", <<value, depth>>,
                   TernaryAddr_from_float(value, depth))
    \/ \E str \in StringArgs :
          n_ops < CoreOps /\ Produced("TernaryAddr::from_string", <<str>>, TernaryAddr_from_string(str))
    \/ n_ops < CoreOps /\ Produced("TernaryAddr::root", <<>>, Val(TernaryAddr_root))
    \/ \E self \in Held(TernaryOps) :
          \/ \E direction \in {0, 2, 3} :
                n_ops < CoreOps /\ Produced("TernaryAddr::navigate", <<self, direction>>,
                         TernaryAddr_navigate(self, direction))
          \/ n_ops < CoreOps /\ Produced("TernaryAddr::trisect", <<self>>, Val(TernaryAddr_trisect(self)))
          \/ n_ops < CoreOps /\ Produced("TernaryAddr::parent", <<self>>, Val(TernaryAddr_parent(self)))

PartitionCalls ==
    \/ \E n \in 0..2, l \in -1..2, m \in {-1, 0, 2}, sp \in Spins :
          n_ops < CoreOps /\ Produced("PartitionCoord::new", <<n, l, m, sp>>, PartitionCoord_new(n, l, m, sp))
    \/ \E n \in 0..2, l \in 0..1, m \in 0..1, s_val \in {F64Arg(50, 5), F64Arg(0, 0)} :
          n_ops < CoreOps /\ Produced("PartitionCoord::from_components", <<n, l, m, s_val>>,
                   PartitionCoord_from_components(n, l, m, s_val))
    \/ \E i \in -1..3 :
          n_ops < CoreOps /\ Produced("PartitionCoord::from_linear_index", <<WideFromInt(i)>>,
                   PartitionCoord_from_linear_index(WideFromInt(i), overflow_checks))
    \/ n_ops < CoreOps /\ Produced("PartitionCoord::default", <<>>, Val(PartitionCoord_default))

MentalCalls ==
    \/ \E gamma \in AxisArgs, gamma_f \in {90, 150} :
          n_ops < CoreOps /\ Produced("MentalState::new", <<gamma, gamma_f, 0>>,
                   MentalState_new(gamma, gamma_f, 0))
    \/ \E s_coord \in {None} \cup {Some(v) : v \in Held(SCoordOps)},
          partition \in {None} \cup {Some(v) : v \in Held(PartitionOps)} :
          n_ops < CoreOps /\ Produced("MentalState::initial", <<s_coord, partition>>,
                   Val(MentalState_initial(s_coord, partition)))
    \/ \E self \in Held(MentalOps) :
          \/ \E x \in LevelInputs :
                \/ n_ops < CoreOps /\ Produced("MentalState::with_gamma", <<self, x>>,
                            Val(MentalState_with_gamma(self, x)))
                \/ n_ops < CoreOps /\ Produced("MentalState::with_gamma_f", <<self, x>>,
                            Val(MentalState_with_gamma_f(self, x)))
                \/ n_ops < CoreOps /\ Produced("MentalState::wake", <<self, x>>,
                            Val(MentalState_wake(self, x)))
          \/ n_ops < CoreOps /\ Produced("MentalState::enter_dream", <<self>>,
                      Val(MentalState_enter_dream(self)))
          \/ \E sc \in OtherCoords :
                n_ops < CoreOps /\ Produced("MentalState::transition_to", <<self, sc>>,
                         Val(MentalState_transition_to(self, sc)))

CoreInit == PartitionInit

CoreNext == SCoordCalls \/ TernaryCalls \/ PartitionCalls \/ MentalCalls

SpecCore == CoreInit /\ [][CoreNext]_vars

\* whether the typed arguments of the last call satisfy their range constraints
TypedInputsValid ==
    CASE call.op \in {"SCoord::update"} -> ValidSCoord(call.args[1])
      [] call.op = "SCoord::interpolate" ->
            ValidSCoord(call.args[1]) /\ ValidSCoord(call.args[2])
      [] call.op = "decode_scoord" -> \A i \in 1..3 : ValidTernaryAddr(call.args[i])
      [] call.op \in {"TernaryAddr::navigate", "TernaryAddr::trisect",
                      "TernaryAddr::parent"} -> ValidTernaryAddr(call.args[1])
      [] call.op = "MentalState::initial" ->
            /\ IsSome(call.args[1]) => ValidSCoord(Unwrap(call.args[1]))
            /\ IsSome(call.args[2]) => ValidPartitionCoord(Unwrap(call.args[2]))
      [] call.op \in {"MentalState::with_gamma", "MentalState::with_gamma_f",
                      "MentalState::wake", "MentalState::enter_dream"} ->
            ValidMentalState(call.args[1])
      [] call.op = "MentalState::transition_to" ->
            ValidMentalState(call.args[1]) /\ ValidSCoord(call.args[2])
      [] OTHER -> TRUE

ValidValue(v) ==
    CASE call.op \in SCoordOps -> ValidSCoord(v)
      [] call.op \in TernaryOps -> ValidTernaryAddr(v)
      [] call.op \in PartitionOps -> ValidPartitionCoord(v)
      [] call.op \in MentalOps -> ValidMentalState(v)

\* C6: no validated type can exist in an invalid state once constructed.  The
\* formula asks it only of the functions that validate or clamp, called with
\* typed arguments that satisfy their constraints: every PartitionCoord, SCoord,
\* TernaryAddr and MentalState they return satisfies its range constraints
\* (n >= 1, 0 <= l < n, -l <= m <= l; each SCoord axis in [0,1]; every ternary
\* digit in {0,1,2}; gamma and gamma_f in [0,1]).
C6_ValidatedStaysValid ==
    (call.op \notin UncheckedOps /\ TypedInputsValid) =>
        \A v \in HeldValues : ValidValue(v)

\* C6 as stated, new_unchecked included.
C6_NoInvalidValue == \A v \in HeldValues : ValidValue(v)

----------------------------------------------------------------------------
(* A MentalState under its update methods: current_state is the state, and  *)
(* call records the last method applied, the state it was applied to first  *)

\* longest chain of updates
MentalSteps == 4

InitialMentalStates ==
    {MentalState_new(gamma, 90, 0).val : gamma \in {80, 100}}
        \cup {MentalState_initial(None, None)}

Applied(op, args, new_state) ==
    /\ n_ops < MentalSteps
    /\ n_ops' = n_ops + 1
    /\ call' = [op |-> op, args |-> <<current_state>> \o args, ret |-> Val(new_state)]
    /\ current_state' = new_state
    /\ UNCHANGED <<max_history, history, appended, fifo_scope, overflow_checks,
                   kuramoto_state, state_history, frame>>

\* time steps of -0.01 s, 0.01 s and 100 s
WithGamma ==
    \E gamma \in {0, 80} :
        n_ops < MentalSteps /\ Applied("with_gamma", <<gamma>>, MentalState_with_gamma(current_state, gamma))
WithGammaF ==
    \E gamma_f \in {90} :
        n_ops < MentalSteps /\ Applied("with_gamma_f", <<gamma_f>>, MentalState_with_gamma_f(current_state, gamma_f))
DecayPerception ==
    \E dt \in {-1, 1} :
        n_ops < MentalSteps /\ Applied("decay_perception", <<TauP, dt>>,
                MentalState_decay_perception(current_state, TauP, dt))
DecayThought ==
    \E dt \in {1, 10000} :
        n_ops < MentalSteps /\ Applied("decay_thought", <<TauT, dt>>,
                MentalState_decay_thought(current_state, TauT, dt))
EnterDream == n_ops < MentalSteps /\ Applied("enter_dream", <<>>, MentalState_enter_dream(current_state))
Wake ==
    \E perception_level \in {-20, 50, 150} :
        n_ops < MentalSteps /\ Applied("wake", <<perception_level>>,
                MentalState_wake(current_state, perception_level))
TransitionTo ==
    n_ops < MentalSteps /\ Applied("transition_to", <<SCoord_origin>>,
            MentalState_transition_to(current_state, SCoord_origin))
\* the consciousness operator on four numbers
CallConsciousness ==
    \E p_decay \in {0, 100}, t_decay \in {0, 100}, gamma \in {0, 80, 100},
       gamma_f \in {0, 90, 100} :
        call = NoCall /\ Returned("consciousness", <<p_decay, t_decay, gamma, gamma_f>>,
                 Val(consciousness(p_decay, t_decay, gamma, gamma_f)))

MentalInit ==
    /\ max_history = 0
    /\ history = <<>>
    /\ appended = <<>>
    /\ fifo_scope = FALSE
    /\ n_ops = 0
    /\ CallIdle
    /\ current_state \in InitialMentalStates

MentalNext ==
    \/ WithGamma
    \/ WithGammaF
    \/ DecayPerception
    \/ DecayThought
    \/ EnterDream
    \/ Wake
    \/ TransitionTo
    \/ CallConsciousness

SpecMental == MentalInit /\ [][MentalNext]_vars

\* 1.0 and 0.01 at the scale of a consciousness value
ConsciousnessOne == FxOne * FxOne * FxOne * FxOne
ConsciousnessHundredth == FxOne * FxOne * FxOne

\* C8: consciousness is the product p_decay*t_decay*gamma*gamma_f and lies in
\* [0,1]: the operator returns a value in [0,1] for inputs in [0,1]^4 (0.72 for
\* (1,1,0.8,0.9)), and in every MentalState reachable from new/initial through
\* with_gamma, with_gamma_f, decay_perception, decay_thought, enter_dream, wake
\* and transition_to, p_decay, t_decay, gamma, gamma_f and consciousness() are
\* in [0,1].
C8_ConsciousnessInUnit ==
    /\ call.op = "consciousness" =>
          /\ call.ret.val = call.args[1] * call.args[2] * call.args[3] * call.args[4]
          /\ 0 <= call.ret.val /\ call.ret.val <= ConsciousnessOne
          /\ call.args = <<100, 100, 80, 90>> => call.ret.val = 72 * ConsciousnessHundredth
    /\ InUnit(current_state.p_decay)
    /\ InUnit(current_state.t_decay)
    /\ InUnit(current_state.gamma)
    /\ InUnit(current_state.gamma_f)
    /\ 0 <= MentalState_consciousness(current_state)
    /\ MentalState_consciousness(current_state) <= ConsciousnessOne

\* enter_dream sets p_decay to 0 and changes nothing else, and wake sets
\* p_decay to the clamped level and changes nothing else
DreamAndWakeAssign ==
    /\ call.op = "enter_dream" => call.ret.val = [call.args[1] EXCEPT !.p_decay = 0]
    /\ call.op = "wake" =>
          call.ret.val = [call.args[1] EXCEPT !.p_decay =
                              IF call.args[2] < 0 THEN 0
                              ELSE IF call.args[2] > FxOne THEN FxOne ELSE call.args[2]]

\* C9 (as stated): entering dream mode drives consciousness below 0.01 from any
\* state with gamma, gamma_f > 0, setting p_decay to 0 and nothing else; waking
\* with level L sets p_decay to clamp(L, 0, 1) and yields a strictly higher
\* consciousness than the dream state for every L > 0.
C9_WakeRaisesConsciousness ==
    /\ DreamAndWakeAssign
    /\ (call.op = "enter_dream" /\ call.args[1].gamma > 0 /\ call.args[1].gamma_f > 0) =>
          MentalState_consciousness(call.ret.val) < ConsciousnessHundredth
    /\ (call.op = "wake" /\ call.args[1].p_decay = 0 /\ call.args[2] > 0
            /\ call.args[1].gamma > 0 /\ call.args[1].gamma_f > 0) =>
          MentalState_consciousness(call.ret.val) > MentalState_consciousness(call.args[1])

\* C9 (amended): entering dream mode sets p_decay to 0 and nothing else, which
\* makes consciousness 0; waking with level L sets p_decay to clamp(L, 0, 1) and
\* nothing else, and from a dream state with gamma, gamma_f > 0 and L > 0 it
\* yields a strictly higher consciousness exactly when t_decay > 0: with
\* t_decay = 0 consciousness stays 0.
C9_WakeRaisesUnlessThoughtDecayed ==
    /\ DreamAndWakeAssign
    /\ call.op = "enter_dream" => MentalState_consciousness(call.ret.val) = 0
    /\ (call.op = "wake" /\ call.args[1].p_decay = 0 /\ call.args[2] > 0
            /\ call.args[1].gamma > 0 /\ call.args[1].gamma_f > 0) =>
          IF call.args[1].t_decay > 0
          THEN MentalState_consciousness(call.ret.val)
                   > MentalState_consciousness(call.args[1])
          ELSE MentalState_consciousness(call.ret.val) = 0

\* a dream state with thought not decayed away was woken with a level above 1
C9_Witness ==
    /\ call.op = "wake"
    /\ call.args[1].p_decay = 0
    /\ call.args[1].t_decay > 0 /\ call.args[1].t_decay < FxOne
    /\ call.args[1].gamma > 0 /\ call.args[1].gamma_f > 0
    /\ call.args[2] > FxOne
    /\ call.ret.val.p_decay = FxOne
    /\ MentalState_consciousness(call.ret.val) > 0

----------------------------------------------------------------------------
(* Calls of PoincareComputer::compute_consciousness *)

\* largest iteration budget
MaxIterations == 3

ComputeInitials == {MentalState_default, MentalState_initial(Some(SCoord_origin), None)}
TargetArgs == {0, 26}
StepArgs == {0, 1}
\* coherences of the network; NaN is the coherence of a network of no oscillators
CoherenceArgs == {NaN, 0, 70, 100}

ComputeConsciousness ==
    \E initial_state \in ComputeInitials, target_consciousness \in TargetArgs,
       max_iterations \in 0..MaxIterations, dt \in StepArgs :
        \E rs \in [1..max_iterations -> CoherenceArgs] :
            LET out == PoincareComputer_compute_consciousness(
                           kuramoto_state.coupling_factors, initial_state,
                           target_consciousness, max_iterations, dt, rs)
            IN  /\ call = NoCall
                /\ call' = [op |-> "compute_consciousness",
                            args |-> <<initial_state, target_consciousness,
                                       max_iterations, dt, rs>>,
                            ret |-> Val(out.result)]
                /\ kuramoto_state' = [kuramoto_state EXCEPT
                                          !.coupling_factors = out.coupling_factors]
                /\ UNCHANGED <<overflow_checks, state_history, frame, smVars>>

ComputeInit == SMIdle /\ CallIdle

ComputeNext == ComputeConsciousness

SpecCompute == ComputeInit /\ [][ComputeNext]_vars

\* the state after j iterations of the evolution step, whatever the loop does
RECURSIVE StateAfter(_, _, _, _)
StateAfter(initial_state, dt, rs, j) ==
    IF j = 0 THEN initial_state
    ELSE MentalState_decay_thought(
             MentalState_decay_perception(
                 MentalState_with_gamma(StateAfter(initial_state, dt, rs, j - 1), rs[j]),
                 TauP, dt),
             TauT, dt)

\* |c - target| < 0.01
WithinTolerance(c, target) ==
    /\ ~IsNaN(c)
    /\ c - target * ConsciousnessHundredth < ConsciousnessHundredth
    /\ target * ConsciousnessHundredth - c < ConsciousnessHundredth

\* C10: compute_consciousness returns success = true with iterations = i exactly
\* when i <= max_iterations is the first iteration at which
\* |consciousness - target| < 0.01, and then convergence_history has length i
\* and its last element is within 0.01 of target; otherwise it returns
\* success = false, iterations = max_iterations, metadata reason
\* "max_iterations" and a convergence_history of length max_iterations with no
\* element within 0.01 of target (for max_iterations = 0 the final state is the
\* initial state).
C10_ComputeOutcome ==
    call.op = "compute_consciousness" =>
        LET initial_state == call.args[1]
            target == call.args[2]
            max_iterations == call.args[3]
            dt == call.args[4]
            rs == call.args[5]
            res == call.ret.val
            hist == res.convergence_history
            hits == {i \in 1..max_iterations :
                        WithinTolerance(MentalState_consciousness(
                                            StateAfter(initial_state, dt, rs, i)), target)}
        IN  /\ res.success <=> hits # {}
            /\ \A j \in 1..Len(hist) :
                  hist[j] = MentalState_consciousness(StateAfter(initial_state, dt, rs, j))
            /\ res.success =>
                  /\ res.iterations \in hits
                  /\ \A i \in hits : res.iterations <= i
                  /\ Len(hist) = res.iterations
                  /\ WithinTolerance(hist[Len(hist)], target)
                  /\ res.final_state = StateAfter(initial_state, dt, rs, res.iterations)
            /\ ~res.success =>
                  /\ res.iterations = max_iterations
                  /\ res.metadata = {<<"reason", "max_iterations">>}
                  /\ Len(hist) = max_iterations
                  /\ \A j \in 1..Len(hist) : ~WithinTolerance(hist[j], target)
                  /\ res.final_state = StateAfter(initial_state, dt, rs, max_iterations)
            /\ max_iterations = 0 => res.final_state = initial_state

\* a call converged at its second iteration with budget to spare
C10_Witness ==
    /\ call.op = "compute_consciousness"
    /\ call.ret.val.success
    /\ call.ret.val.iterations = 2
    /\ call.args[3] = 3
    /\ Len(call.ret.val.convergence_history) = 2

----------------------------------------------------------------------------
(* A PoincareComputer under its operations.  find_equilibrium is taken one  *)
(* loop iteration at a time; frame holds its locals while it runs.          *)

\* largest oscillator count a computer is created with, and the number of
\* operations called on it
OscillatorBound == 2
EngineOps == 2

\* self, as the operations read it
Self == [kuramoto_state |-> kuramoto_state, state_history |-> state_history]

EngineInitials == {MentalState_default, MentalState_new(80, 90, 0).val}
\* durations and steps of -0.01 s to 0.03 s
DurationArgs == {-1, 0, 3}
SimStepArgs == {-1, 0, 1, 2}

\* the coherences that can be read after the network advanced
CoherencesAfter(state, co_broadcast) ==
    IF IsVal(kuramoto(state, co_broadcast))
    THEN CoherenceValues(kuramoto(state, co_broadcast).val.phases)
    ELSE {NaN}

StepsOf(duration, dt) == IF IsVal(NSteps(duration, dt)) THEN NSteps(duration, dt).val ELSE 0

EngineDid(op, args, out) ==
    /\ frame = NoFrame
    /\ n_ops < EngineOps
    /\ n_ops' = n_ops + 1
    /\ call' = [op |-> op, args |-> <<Self>> \o args, ret |-> out.ret]
    /\ kuramoto_state' = out.self.kuramoto_state
    /\ state_history' = out.self.state_history
    /\ UNCHANGED <<max_history, current_state, history, appended, fifo_scope,
                   overflow_checks, frame>>

RunSimulation ==
    \E initial_state \in EngineInitials, duration \in DurationArgs, dt \in SimStepArgs,
       co_broadcast \in BOOLEAN :
        \E rs \in [1..StepsOf(duration, dt) -> CoherencesAfter(kuramoto_state, co_broadcast)] :
            frame = NoFrame /\ EngineDid("run_simulation", <<initial_state, duration, dt, rs>>,
                      PoincareComputer_run_simulation(Self, initial_state, duration, dt, rs,
                                                      co_broadcast))

DreamSimulation ==
    \E initial_state \in {MentalState_default}, duration \in {2}, dt \in {1},
       co_broadcast \in BOOLEAN :
        \E rs \in [1..StepsOf(duration, dt) -> CoherencesAfter(kuramoto_state, co_broadcast)] :
            frame = NoFrame /\ EngineDid("dream_simulation", <<initial_state, duration, dt, rs>>,
                      PoincareComputer_dream_simulation(Self, initial_state, duration, dt, rs,
                                                        co_broadcast))

EngineComputeConsciousness ==
    \E initial_state \in {MentalState_default}, target_consciousness \in {0, 26},
       max_iterations \in {0, 2}, dt \in {1}, co_broadcast \in BOOLEAN :
        \E rs \in [1..max_iterations -> CoherencesAfter(kuramoto_state, co_broadcast)] :
            LET out == PoincareComputer_compute_consciousness(
                           kuramoto_state.coupling_factors, initial_state,
                           target_consciousness, max_iterations, dt, rs)
            IN  frame = NoFrame /\ EngineDid("compute_consciousness",
                          <<initial_state, target_consciousness, max_iterations, dt, rs>>,
                          [ret |-> Val(out.result),
                           self |-> [Self EXCEPT !.kuramoto_state.coupling_factors =
                                                     out.coupling_factors]])

ApplyDrugPerturbation ==
    \E state \in {MentalState_default}, concentration \in {50, 300}, k_agg \in {100}, dt \in {1},
       co_broadcast \in BOOLEAN :
        \E r \in CoherencesAfter(kuramoto_state, co_broadcast) :
            frame = NoFrame /\ EngineDid("apply_drug_perturbation", <<state, concentration, k_agg, dt, r>>,
                      PoincareComputer_apply_drug_perturbation(Self, state, concentration,
                                                               k_agg, r, co_broadcast))

ResetKuramoto ==
    frame = NoFrame /\ EngineDid("reset_kuramoto", <<>>,
              [ret |-> Val(<<>>), self |-> PoincareComputer_reset_kuramoto(Self)])

\* |c - prev_c| < tolerance, the consciousness values at scale FxOne^4
WithinChange(c, prev_c, tolerance) ==
    /\ ~IsNaN(c) /\ ~IsNaN(prev_c) /\ ~IsNaN(tolerance)
    /\ Abs(c - prev_c) < tolerance * FxOne * FxOne * FxOne

\* most loop iterations counted
IterationCap == 4

\* find_equilibrium up to its loop.  r is the coherence of the phases as they
\* are; a step of size 0 leaves the phases, and so the coherence, unchanged.
FindEquilibriumCall ==
    \E initial_state \in {MentalState_default}, max_time \in {0, 2}, dt \in {0, 1},
       tolerance \in {0, 1, 100}, r \in CoherenceValues(kuramoto_state.phases) :
        /\ frame = NoFrame
        /\ n_ops < EngineOps
        /\ n_ops' = n_ops + 1
        /\ frame' = [pc |-> "find_equilibrium",
                     self0 |-> Self,
                     initial_state |-> initial_state,
                     max_time |-> max_time, dt |-> dt, tolerance |-> tolerance,
                     state |-> initial_state,
                     time |-> 0,
                     prev_c |-> MentalState_consciousness(initial_state),
                     r |-> r,
                     iterations |-> 0]
        /\ UNCHANGED <<max_history, current_state, history, appended, fifo_scope,
                       call, overflow_checks, kuramoto_state, state_history>>

FindEquilibriumReturned(ret) ==
    /\ call' = [op |-> "find_equilibrium",
                args |-> <<frame.self0, frame.initial_state, frame.max_time, frame.dt,
                           frame.tolerance>>,
                ret |-> ret,
                iterations |-> frame.iterations]
    /\ frame' = NoFrame

\* one evaluation of the loop condition of find_equilibrium and, when it
\* holds, one pass of the loop body
FindEquilibriumStep ==
    /\ "pc" \in DOMAIN frame /\ frame.pc = "find_equilibrium"
    /\ UNCHANGED <<max_history, current_state, history, appended, fifo_scope, n_ops,
                   overflow_checks, state_history>>
    /\ IF ~(frame.time < frame.max_time)
       THEN /\ FindEquilibriumReturned(Val(<<frame.state, FALSE>>))
            /\ UNCHANGED kuramoto_state
       ELSE \E co_broadcast \in BOOLEAN :
            \E r \in (IF frame.dt = 0 THEN {frame.r}
                      ELSE CoherencesAfter(kuramoto_state, co_broadcast)) :
               LET advanced == kuramoto(kuramoto_state, co_broadcast)
                   with_r == MentalState_with_gamma(frame.state, r)
                   decayed_p == MentalState_decay_perception(with_r, TauP, frame.dt)
                   state == MentalState_decay_thought(decayed_p, TauT, frame.dt)
                   c == MentalState_consciousness(state)
                   counted == IF frame.iterations < IterationCap
                              THEN frame.iterations + 1 ELSE frame.iterations
               IN  IF ~IsVal(advanced)
                   THEN /\ FindEquilibriumReturned(Panic)
                        /\ UNCHANGED kuramoto_state
                   ELSE /\ kuramoto_state' = advanced.val
                        /\ IF WithinChange(c, frame.prev_c, frame.tolerance)
                           THEN /\ call' = [op |-> "find_equilibrium",
                                            args |-> <<frame.self0, frame.initial_state,
                                                       frame.max_time, frame.dt,
                                                       frame.tolerance>>,
                                            ret |-> Val(<<state, TRUE>>),
                                            iterations |-> counted]
                                /\ frame' = NoFrame
                           ELSE /\ frame' = [frame EXCEPT !.state = state,
                                                          !.prev_c = c,
                                                          !.time = frame.time + frame.dt,
                                                          !.r = r,
                                                          !.iterations = counted]
                                /\ UNCHANGED call

\* PoincareComputer::new(n_oscillators, coupling_strength, n_partition_levels)
\* a call of one of the functions on a KuramotoState of the caller's
KuramotoReturned(op, args, ret) ==
    /\ frame = NoFrame
    /\ n_ops < EngineOps
    /\ n_ops' = n_ops + 1
    /\ call' = [op |-> op, args |-> args, ret |-> ret]
    /\ UNCHANGED <<max_history, current_state, history, appended, fifo_scope,
                   overflow_checks, kuramoto_state, state_history, frame>>

\* arrays of up to OscillatorBound elements each
KuramotoStates ==
    {KuramotoState_new(Array1(p), Array1(f), <<>>) :
        p \in 0..OscillatorBound, f \in 0..OscillatorBound}

KuramotoNew ==
    \E p \in 0..OscillatorBound, f \in 0..OscillatorBound :
        frame = NoFrame /\ KuramotoReturned("KuramotoState::new", <<Array1(p), Array1(f)>>,
                         Val(KuramotoState_new(Array1(p), Array1(f), <<>>)))
KuramotoRandom ==
    \E n \in 0..OscillatorBound :
        frame = NoFrame /\ KuramotoReturned("KuramotoState::random", <<n>>, Val(KuramotoState_random(n, <<>>)))
Kuramoto ==
    \E state \in KuramotoStates, co_broadcast \in BOOLEAN :
        frame = NoFrame /\ KuramotoReturned("kuramoto", <<state, 1>>, kuramoto(state, co_broadcast))
KuramotoWithDrug ==
    \E state \in KuramotoStates, co_broadcast \in BOOLEAN :
        frame = NoFrame /\ KuramotoReturned("kuramoto_with_drug", <<state, 50, 100, 1>>,
                         kuramoto_with_drug(state, 50, 100, co_broadcast))

EngineInit ==
    /\ SMIdle
    /\ overflow_checks = TRUE
    /\ frame = NoFrame
    /\ \E n_oscillators \in 0..OscillatorBound :
          /\ call = [op |-> "PoincareComputer::new", args |-> <<n_oscillators>>, ret |-> <<>>]
          /\ kuramoto_state = PoincareComputer_new(n_oscillators, <<>>).kuramoto_state
          /\ state_history = PoincareComputer_new(n_oscillators, <<>>).state_history

EngineNext ==
    \/ RunSimulation
    \/ DreamSimulation
    \/ EngineComputeConsciousness
    \/ ApplyDrugPerturbation
    \/ ResetKuramoto
    \/ FindEquilibriumCall
    \/ FindEquilibriumStep
    \/ KuramotoNew
    \/ KuramotoRandom
    \/ Kuramoto
    \/ KuramotoWithDrug

SpecEngine == EngineInit /\ [][EngineNext]_vars

\* floor(a / b) for b # 0
Floor(a, b) == IF b > 0 THEN a \div b ELSE (-a) \div (-b)

\* two mental states that differ at most in their timestamps
SameButTimestamp(a, b) == [a EXCEPT !.timestamp = 0] = [b EXCEPT !.timestamp = 0]

\* C11: run_simulation(initial, duration, dt) performs exactly
\* floor(duration/dt) steps and returns that many states, the k-th being the
\* state after k steps (gamma the coherence read in step k, both decays applied
\* k times); afterwards state_history() is exactly the returned sequence,
\* whatever an earlier run stored, and compute_consciousness, find_equilibrium
\* and apply_drug_perturbation leave state_history unchanged.
C11_RunSimulationRecordsEveryStep ==
    /\ call.op = "run_simulation" =>
          LET initial_state == call.args[2]
              duration == call.args[3]
              dt == call.args[4]
              rs == call.args[5]
          IN  /\ call.ret.tag = "Val"
              /\ dt # 0 => Len(call.ret.val) = Floor(duration, dt)
              /\ \A k \in 1..Len(call.ret.val) :
                    SameButTimestamp(call.ret.val[k], StateAfter(initial_state, dt, rs, k))
              /\ state_history = call.ret.val
    /\ call.op \in {"compute_consciousness", "find_equilibrium", "apply_drug_perturbation"} =>
          state_history = call.args[1].state_history

----------------------------------------------------------------------------
(* The operators COMPLETE and EQUILIBRIUM of vb-operators.                  *)
(* A constraint closure is one of two kinds: the constant |_| v, and        *)
(* |s| s.sk - v.  A dynamics closure is one of |s, _| s.clone() and         *)
(* |s, dt| s.decay_perception(0.05, dt).                                    *)

ConstantConstraint(v) == [kind |-> "constant", v |-> v]
SkConstraint(v) == [kind |-> "sk", v |-> v]
StConstraint(v) == [kind |-> "st", v |-> v]
SeConstraint(v) == [kind |-> "se", v |-> v]

\* the coordinate of state on an axis
Axis(state, axis) ==
    IF axis = "sk" THEN state.sk ELSE IF axis = "st" THEN state.st ELSE state.se

\* c(&state)
ConstraintValue(c, state) ==
    IF c.kind = "constant" THEN c.v ELSE FSub(Axis(state, c.kind), c.v)

\* constraints.iter().map(|c| c(&state).abs()).sum()
RECURSIVE TotalViolation(_, _, _)
TotalViolation(constraints, state, i) ==
    IF i > Len(constraints) THEN 0
    ELSE FAdd(IF IsNaN(ConstraintValue(constraints[i], state)) THEN NaN
              ELSE Abs(ConstraintValue(constraints[i], state)),
              TotalViolation(constraints, state, i + 1))

\* the forward difference of the sum of squares along an axis over epsilon =
\* 1e-6: 2 * (coordinate - v) per constraint on that axis, to the hundredth
RECURSIVE AxisSlope(_, _, _, _)
AxisSlope(constraints, state, axis, i) ==
    IF i > Len(constraints) THEN 0
    ELSE FAdd(IF constraints[i].kind = axis
              THEN FMul(2 * FxOne, FSub(Axis(state, axis), constraints[i].v))
              ELSE 0,
              AxisSlope(constraints, state, axis, i + 1))

\* the component of an axis at the upper bound, taken inward
Component_Inward(state, constraints, axis) == AxisSlope(constraints, state, axis, 1)

\* one component of compute_constraint_gradient: the difference is taken
\* only when the coordinate can step forward by epsilon within 1.0 and is
\* 0.0 otherwise; v0, the sum of squares at state, enters every difference
Component(state, constraints, axis) ==
    IF ~IsNaN(Axis(state, axis)) /\ Axis(state, axis) < FxOne
    THEN (IF IsNaN(TotalViolation(constraints, state, 1)) THEN NaN
          ELSE AxisSlope(constraints, state, axis, 1))
    ELSE 0

compute_constraint_gradient(state, constraints) ==
    <<Component(state, constraints, "sk"), Component(state, constraints, "st"),
      Component(state, constraints, "se")>>

\* the loop of complete from iteration iter on, and the code after it
RECURSIVE CompleteLoop(_, _, _, _, _, _, _, _)
CompleteLoop(state, constraints, max_iterations, tolerance, learning_rate, iter, trajectory, violations) ==
    LET total_violation == TotalViolation(constraints, state, 1)
        below == ~IsNaN(total_violation) /\ total_violation < tolerance
        grad == compute_constraint_gradient(state, constraints)
        stepped == SCoord_update(state, FMul(FNeg(learning_rate), grad[1]),
                                 FMul(FNeg(learning_rate), grad[2]),
                                 FMul(FNeg(learning_rate), grad[3]))
    IN  IF iter >= max_iterations
        THEN [success |-> below, final_state |-> state, iterations |-> max_iterations,
              trajectory |-> trajectory,
              constraint_violations |-> Append(violations, total_violation)]
        ELSE IF below
        THEN [success |-> TRUE, final_state |-> state, iterations |-> iter,
              trajectory |-> trajectory,
              constraint_violations |-> Append(violations, total_violation)]
        ELSE CompleteLoop(stepped, constraints, max_iterations, tolerance, learning_rate,
                          iter + 1, Append(trajectory, stepped),
                          Append(violations, total_violation))

complete(partial_state, constraints, max_iterations, tolerance, learning_rate) ==
    CompleteLoop(partial_state, constraints, max_iterations, tolerance, learning_rate,
                 0, <<partial_state>>, <<>>)

\* dynamics(&state, dt)
ApplyDynamics(dynamics, state, dt) ==
    IF dynamics = "clone" THEN state ELSE MentalState_decay_perception(state, TauP, dt)

\* equilibrium up to its loop
EquilibriumCall ==
    \E initial_state \in {MentalState_default}, dynamics \in {"clone", "decay_perception"},
       dt \in {0, 1}, max_time \in {0, 2}, tolerance \in {0, 1, 100} :
        /\ frame = NoFrame
        /\ n_ops < EngineOps
        /\ n_ops' = n_ops + 1
        /\ frame' = [pc |-> "equilibrium",
                     initial_state |-> initial_state, dynamics |-> dynamics,
                     dt |-> dt, max_time |-> max_time, tolerance |-> tolerance,
                     state |-> initial_state,
                     time |-> 0,
                     prev_consciousness |-> MentalState_consciousness(initial_state),
                     iterations |-> 0]
        /\ UNCHANGED <<max_history, current_state, history, appended, fifo_scope,
                       call, overflow_checks, kuramoto_state, state_history>>

\* one evaluation of the loop condition of equilibrium and, when it holds, one
\* pass of the loop body
EquilibriumStep ==
    /\ "pc" \in DOMAIN frame /\ frame.pc = "equilibrium"
    /\ UNCHANGED <<max_history, current_state, history, appended, fifo_scope, n_ops,
                   overflow_checks, kuramoto_state, state_history>>
    /\ LET state == ApplyDynamics(frame.dynamics, frame.state, frame.dt)
           new_consciousness == MentalState_consciousness(state)
           counted == IF frame.iterations < IterationCap
                      THEN frame.iterations + 1 ELSE frame.iterations
           returned(ret, n) ==
               /\ call' = [op |-> "equilibrium",
                           args |-> <<frame.initial_state, frame.dynamics, frame.max_time,
                                      frame.dt, frame.tolerance>>,
                           ret |-> ret,
                           iterations |-> n]
               /\ frame' = NoFrame
       IN  IF ~(frame.time < frame.max_time)
           THEN returned(Val(<<frame.state, FALSE>>), frame.iterations)
           ELSE IF WithinChange(new_consciousness, frame.prev_consciousness, frame.tolerance)
           THEN returned(Val(<<state, TRUE>>), counted)
           ELSE /\ frame' = [frame EXCEPT !.state = state,
                                          !.time = frame.time + frame.dt,
                                          !.prev_consciousness = new_consciousness,
                                          !.iterations = counted]
                /\ UNCHANGED call

\* the calls that run a for loop over their budget, each in one step
CompleteCall ==
    \E partial_state \in {SCoord_new_unchecked(10, 10, 10)},
       constraints \in {<<>>, <<ConstantConstraint(30)>>, <<SkConstraint(50)>>},
       max_iterations \in {0, 3}, tolerance \in {-1, 0, 1}, learning_rate \in {0, 10} :
        frame = NoFrame /\ EngineDid("complete",
                  <<partial_state, constraints, max_iterations, tolerance, learning_rate>>,
                  [ret |-> Val(complete(partial_state, constraints, max_iterations, tolerance,
                                        learning_rate)),
                   self |-> Self])

FromLinearIndexCall ==
    \E i \in {-1, 0, 27, 28} :
        frame = NoFrame /\ EngineDid("from_linear_index", <<WideFromInt(i)>>,
                  [ret |-> PartitionCoord_from_linear_index(WideFromInt(i), overflow_checks),
                   self |-> Self])

\* a call is in progress
Running == frame # NoFrame

TerminationNext ==
    \/ FindEquilibriumCall
    \/ FindEquilibriumStep
    \/ EquilibriumCall
    \/ EquilibriumStep
    \/ EngineComputeConsciousness
    \/ CompleteCall
    \/ FromLinearIndexCall

\* a computer as constructed, with one call left to make
TerminationInit ==
    /\ max_history = 0
    /\ current_state = MentalState_default
    /\ history = <<>>
    /\ appended = <<>>
    /\ fifo_scope = FALSE
    /\ n_ops = EngineOps - 1
    /\ call = NoCall
    /\ overflow_checks = TRUE
    /\ frame = NoFrame
    /\ \E n_oscillators \in 0..OscillatorBound :
          /\ kuramoto_state = PoincareComputer_new(n_oscillators, <<>>).kuramoto_state
          /\ state_history = PoincareComputer_new(n_oscillators, <<>>).state_history

\* the thread that made a call keeps running it
SpecTermination ==
    /\ TerminationInit
    /\ [][TerminationNext]_vars
    /\ WF_vars(FindEquilibriumStep)
    /\ WF_vars(EquilibriumStep)

\* ceil(a / b) for b > 0
Ceil(a, b) == -((-a) \div b)

\* the loop ran at most ceil(max_time / dt) times when the last call returned
IterationsWithinBound ==
    (call.op \in {"find_equilibrium", "equilibrium"} /\ call.args[4] > 0) =>
        call.iterations <= (IF call.args[3] <= 0 THEN 0 ELSE Ceil(call.args[3], call.args[4]))

\* C12: no call blocks: for every argument value (dt <= 0, tolerance <= 0 and
\* budgets of 0 included) a call that was made eventually returns, and
\* find_equilibrium and equilibrium return after at most ceil(max_time/dt)
\* loop iterations.
C12_NoCallBlocks == [](IterationsWithinBound) /\ (Running ~> ~Running)

----------------------------------------------------------------------------
(* StateManager::transition *)

\* d is the square root of sum to the nearest hundredth
IsRootOf(d, sum) ==
    /\ d >= 0
    /\ 4 * sum <= (2 * d + 1) * (2 * d + 1)
    /\ d > 0 => (2 * d - 1) * (2 * d - 1) <= 4 * sum

\* x limited to [0, 1]
Limited(x) == IF x < 0 THEN 0 ELSE IF x > FxOne THEN FxOne ELSE x

\* C13: transition returns success with from_state the coordinate before the
\* call, to_state the target and distance their Euclidean distance (0 without
\* a prior coordinate); afterwards the current coordinate is the target, gamma
\* and gamma_f are the overrides limited to [0, 1] or unchanged without one,
\* the previous coordinate is appended to the trajectory, and p_decay,
\* t_decay, m, timestamp and partition are unchanged.
C13_TransitionResultAndState ==
    call.op = "transition" =>
        LET before == call.args[1]
            target == call.args[2]
            new_gamma == call.args[3]
            new_gamma_f == call.args[4]
            result == call.ret.val
        IN  /\ call.ret.tag = "Val"
            /\ result.success = TRUE
            /\ result.from_state = before.s_coord
            /\ result.to_state = target
            /\ IF IsSome(before.s_coord)
               THEN LET from == Unwrap(before.s_coord)
                    IN  IsRootOf(result.distance,
                                 (from.sk - target.sk) * (from.sk - target.sk)
                                   + (from.st - target.st) * (from.st - target.st)
                                   + (from.se - target.se) * (from.se - target.se))
               ELSE result.distance = 0
            /\ current_state.s_coord = Some(target)
            /\ current_state.gamma =
                   IF IsSome(new_gamma) THEN Limited(Unwrap(new_gamma)) ELSE before.gamma
            /\ current_state.gamma_f =
                   IF IsSome(new_gamma_f) THEN Limited(Unwrap(new_gamma_f)) ELSE before.gamma_f
            /\ current_state.trajectory =
                   IF IsSome(before.s_coord)
                   THEN before.trajectory \o <<Unwrap(before.s_coord)>>
                   ELSE before.trajectory
            /\ current_state.p_decay = before.p_decay
            /\ current_state.t_decay = before.t_decay
            /\ current_state.m = before.m
            /\ current_state.timestamp = before.timestamp
            /\ current_state.partition = before.partition

\* a transition between two different coordinates with an override above 1
C13_Witness ==
    /\ call.op = "transition"
    /\ IsSome(call.args[1].s_coord)
    /\ call.ret.val.distance > 0
    /\ IsSome(call.args[4]) /\ Unwrap(call.args[4]) > FxOne
    /\ Len(current_state.trajectory) >= 2

----------------------------------------------------------------------------
(* A chain of MentalState updates with its caller's record: frame holds the  *)
(* state the chain started from and the coordinates passed to transition_to *)

\* longest chain
LogSteps == 3

LogInitials ==
    {MentalState_initial(None, None),
     MentalState_initial(Some(SCoord_new_unchecked(50, 50, 50)), None),
     MentalState_new(80, 90, 0).val,
     MentalState_new(80, 90, 50).val}

LogCoords == {SCoord_origin, SCoord_new_unchecked(30, 40, 0)}

Logged(op, args, new_state) ==
    /\ n_ops < LogSteps
    /\ n_ops' = n_ops + 1
    /\ call' = [op |-> op, args |-> <<current_state>> \o args, ret |-> Val(new_state)]
    /\ current_state' = new_state
    /\ frame' = [frame EXCEPT !.adopted = IF op = "transition_to"
                                          THEN Append(@, args[1]) ELSE @]
    /\ UNCHANGED <<max_history, history, appended, fifo_scope, overflow_checks,
                   kuramoto_state, state_history>>

LogTransitionTo ==
    \E s \in LogCoords :
        n_ops < LogSteps /\ Logged("transition_to", <<s>>, MentalState_transition_to(current_state, s))
\* dH/dt of -1.0 over a step of -0.01 s or 0.01 s
UpdateMemory ==
    \E dh_dt \in {-100}, dt \in {-1, 1} :
        n_ops < LogSteps /\ Logged("update_memory", <<dh_dt, dt>>,
               MentalState_update_memory(current_state, dh_dt, dt))
EvolveMentalState ==
    \E dt \in {-1, 1}, dh_dt \in {100} :
        n_ops < LogSteps /\ Logged("evolve_mental_state", <<dt, 0, 0, dh_dt>>,
               evolve_mental_state(current_state, dt, 0, 0, dh_dt))
LogWithGamma == n_ops < LogSteps /\ Logged("with_gamma", <<80>>, MentalState_with_gamma(current_state, 80))
LogWithGammaF == n_ops < LogSteps /\ Logged("with_gamma_f", <<90>>, MentalState_with_gamma_f(current_state, 90))
LogDecayPerception ==
    n_ops < LogSteps /\ Logged("decay_perception", <<TauP, 1>>, MentalState_decay_perception(current_state, TauP, 1))
LogDecayThought ==
    n_ops < LogSteps /\ Logged("decay_thought", <<TauT, 1>>, MentalState_decay_thought(current_state, TauT, 1))
LogEnterDream == n_ops < LogSteps /\ Logged("enter_dream", <<>>, MentalState_enter_dream(current_state))
LogWake == n_ops < LogSteps /\ Logged("wake", <<50>>, MentalState_wake(current_state, 50))

LogInit ==
    /\ max_history = 0
    /\ history = <<>>
    /\ appended = <<>>
    /\ fifo_scope = FALSE
    /\ n_ops = 0
    /\ call = NoCall
    /\ overflow_checks = TRUE
    /\ kuramoto_state = KuramotoInitial
    /\ state_history = <<>>
    /\ current_state \in LogInitials
    /\ frame = [pc |-> "chain", initial |-> current_state, adopted |-> <<>>]

LogNext ==
    \/ LogTransitionTo
    \/ UpdateMemory
    \/ EvolveMentalState
    \/ LogWithGamma
    \/ LogWithGammaF
    \/ LogDecayPerception
    \/ LogDecayThought
    \/ LogEnterDream
    \/ LogWake

SpecLog == LogInit /\ [][LogNext]_vars

\* C14: after transition_to calls with s1..sk on a state with coordinate c0
\* (possibly absent) and an empty trajectory, s_coord is sk and the trajectory
\* is [c0 if present, s1, ..., s(k-1)]; each call appends exactly the
\* coordinate held before it (nothing when there was none), never the one it
\* adopts, and leaves every other field unchanged.
C14_TrajectoryLogsPreviousPositions ==
    LET c0 == frame.initial.s_coord
        s == frame.adopted
        k == Len(s)
    IN  /\ k >= 1 =>
              /\ current_state.s_coord = Some(s[k])
              /\ current_state.trajectory =
                     (IF IsSome(c0) THEN <<Unwrap(c0)>> ELSE <<>>) \o SubSeq(s, 1, k - 1)
        /\ k = 0 => current_state.trajectory = <<>> /\ current_state.s_coord = c0
        /\ call.op = "transition_to" =>
              LET self == call.args[1]
              IN  call.ret.val =
                      [self EXCEPT !.trajectory = IF IsSome(self.s_coord)
                                                  THEN self.trajectory \o <<Unwrap(self.s_coord)>>
                                                  ELSE self.trajectory,
                                   !.s_coord = Some(call.args[2])]

\* three transition_to calls with changing coordinates on a state that had one
C14_Witness ==
    /\ call.op = "transition_to"
    /\ Len(frame.adopted) = 3
    /\ IsSome(frame.initial.s_coord)
    /\ frame.adopted[1] # frame.adopted[2]
    /\ Len(current_state.trajectory) = 3

\* a first transition_to on a state that had no coordinate appends nothing
C14_WitnessNoPrior ==
    /\ call.op = "transition_to"
    /\ ~IsSome(call.args[1].s_coord)
    /\ current_state.trajectory = <<>>

\* the methods that leave m alone
MemoryKeepingOps ==
    {"decay_perception", "decay_thought", "with_gamma", "with_gamma_f", "enter_dream",
     "wake", "transition_to"}

\* C15: m is non-negative and never decreased by update_memory or
\* evolve_mental_state, for any dh_dt and dt, from a state created by new or
\* initial; no other update method changes m.
C15_MemoryMonotone ==
    /\ ~IsNaN(current_state.m) /\ current_state.m >= 0
    /\ call.op \in {"update_memory", "evolve_mental_state"} =>
          call.ret.val.m >= call.args[1].m
    /\ call.op \in MemoryKeepingOps => call.ret.val.m = call.args[1].m

----------------------------------------------------------------------------
(* StateManager: the time series of the history *)

\* self.history.iter().filter_map(|s| s.s_coord).collect()
StateManager_get_trajectory ==
    LET kept == SelectSeq(history, LAMBDA s : IsSome(s.s_coord))
    IN  [i \in 1..Len(kept) |-> Unwrap(kept[i].s_coord)]

StateManager_get_consciousness_history ==
    [i \in 1..Len(history) |-> MentalState_consciousness(history[i])]

StateManager_get_memory_history ==
    [i \in 1..Len(history) |-> history[i].m]

\* index i of the two series that map every snapshot refers to history[i]
ScalarSeriesParallel ==
    /\ Len(StateManager_get_consciousness_history) = Len(history)
    /\ Len(StateManager_get_memory_history) = Len(history)
    /\ \A i \in 1..Len(history) :
          /\ StateManager_get_consciousness_history[i] = MentalState_consciousness(history[i])
          /\ StateManager_get_memory_history[i] = history[i].m

\* C16: get_trajectory, get_consciousness_history and get_memory_history each
\* return exactly one entry per history snapshot, in history order, index i of
\* each series referring to history[i].
C16_SeriesParallelToHistory ==
    /\ ScalarSeriesParallel
    /\ Len(StateManager_get_trajectory) = Len(history)
    /\ \A i \in 1..Len(history) :
          /\ IsSome(history[i].s_coord)
          /\ i <= Len(StateManager_get_trajectory)
          /\ StateManager_get_trajectory[i] = Unwrap(history[i].s_coord)

----------------------------------------------------------------------------
(* KuramotoState: the lengths of its two arrays *)

LengthsAgree(state) == Len(state.phases) = Len(state.natural_frequencies)

EngineOpNames ==
    {"run_simulation", "dream_simulation", "compute_consciousness", "find_equilibrium",
     "apply_drug_perturbation", "reset_kuramoto"}

\* the network of the computer keeps two arrays of the length it was built
\* with: PoincareComputer::new builds it so and every operation keeps it so
EngineKeepsOscillators ==
    /\ LengthsAgree(kuramoto_state)
    /\ call.op = "PoincareComputer::new" =>
          KuramotoState_n_oscillators(kuramoto_state) = call.args[1]
    /\ call.op \in EngineOpNames =>
          KuramotoState_n_oscillators(kuramoto_state)
              = KuramotoState_n_oscillators(call.args[1].kuramoto_state)

\* kuramoto and kuramoto_with_drug return arrays of the lengths they were given
StepKeepsLengths ==
    (call.op \in {"kuramoto", "kuramoto_with_drug"} /\ call.ret.tag = "Val"
        /\ LengthsAgree(call.args[1])) =>
        /\ LengthsAgree(call.ret.val)
        /\ KuramotoState_n_oscillators(call.ret.val)
               = KuramotoState_n_oscillators(call.args[1])

\* C17: every KuramotoState has a phase array as long as its frequency array:
\* those built by KuramotoState::new and KuramotoState::random, those returned
\* by kuramoto and kuramoto_with_drug from such a state, and the network of a
\* PoincareComputer, with the oscillator count of its construction, after any
\* of its operations.
C17_PhaseAndFrequencyLengthsAgree ==
    /\ EngineKeepsOscillators
    /\ StepKeepsLengths
    /\ call.op \in {"KuramotoState::new", "KuramotoState::random"} =>
          LengthsAgree(call.ret.val)

----------------------------------------------------------------------------
(* NAVIGATE *)

\* f64::min: the other operand when one is NaN
FMin(a, b) == IF IsNaN(a) THEN b ELSE IF IsNaN(b) THEN a ELSE IF a < b THEN a ELSE b

\* dist < EPSILON with EPSILON = 1e-10: of the distances between points given
\* in hundredths only 0.0 is below it, and NaN is not
BelowEpsilon(dist) == ~IsNaN(dist) /\ dist = 0

RECURSIVE NavigateLoop(_, _, _, _, _)
NavigateLoop(pos, target, step_size, steps_left, path) ==
    IF steps_left = 0 THEN path
    ELSE LET dist == SCoord_distance(pos, target)
         IN  IF BelowEpsilon(dist) THEN path
             ELSE LET g == SCoord_gradient(pos, target)
                      step == FMin(step_size, dist)
                      next == SCoord_update(pos, FMul(g[1], step), FMul(g[2], step),
                                            FMul(g[3], step))
                  IN  NavigateLoop(next, target, step_size, steps_left - 1,
                                   Append(path, next))

navigate(current, target, step_size, max_steps) ==
    NavigateLoop(current, target, step_size, max_steps, <<current>>)

\* largest max_steps
NavigateBound == 4

\* the origin, a point of the cube, and from_frequency(10.0, 1)
NavigateStarts == {SCoord_origin, SCoord_new_unchecked(0, 60, 0), SCoord_from_frequency(1, 1)}
NavigateTargets ==
    {SCoord_new_unchecked(30, 40, 0), SCoord_new_unchecked(80, 0, 0), SCoord_origin,
     SCoord_equilibrium}
NavigateStepSizes == {10, 50, 200}

NavigateCall ==
    \E current \in NavigateStarts, target \in NavigateTargets,
       step_size \in NavigateStepSizes, max_steps \in 0..NavigateBound :
        call = NoCall /\ Returned("navigate", <<current, target, step_size, max_steps>>,
                 Val(navigate(current, target, step_size, max_steps)))

NavigateInit == SMInit /\ CallIdle
NavigateNext == NavigateCall
SpecNavigate == NavigateInit /\ [][NavigateNext]_vars

\* a is strictly closer to target than b
Closer(a, b, target) ==
    /\ ~IsNaN(SquaredNorm(a, target)) /\ ~IsNaN(SquaredNorm(b, target))
    /\ SquaredNorm(a, target) < SquaredNorm(b, target)

\* the properties of a path of navigate
PathProperties(current, target, step_size, max_steps, path) ==
    /\ Len(path) >= 1 /\ path[1] = current
    /\ Len(path) <= max_steps + 1
    /\ \A i \in 1..Len(path) : ValidSCoord(path[i])
    /\ \A i \in 1..(Len(path) - 1) : Closer(path[i + 1], path[i], target)
    /\ (/\ ~IsNaN(SquaredNorm(current, target))
        /\ max_steps * max_steps * step_size * step_size >= SquaredNorm(current, target)) =>
          /\ ~IsNaN(SquaredNorm(path[Len(path)], target))
          /\ SquaredNorm(path[Len(path)], target) <= step_size * step_size
    /\ \A i \in 1..(Len(path) - 1) :
          ~(~IsNaN(SquaredNorm(path[i], target)) /\ SquaredNorm(path[i], target) = 0)

\* C18: navigate with step_size > 0 returns a path that starts with current,
\* has at most max_steps + 1 points, all in the unit cube, each strictly
\* closer to target than the one before, the last within step_size of target
\* when max_steps >= ceil(distance / step_size), and no point appended after
\* one that is within 1e-10 of target.
C18_NavigatePath ==
    (call.op = "navigate" /\ call.args[3] > 0) =>
        PathProperties(call.args[1], call.args[2], call.args[3], call.args[4], call.ret.val)

----------------------------------------------------------------------------
(* PartitionCoord: distance and enumeration *)

\* C19: for all valid a and b, categorical_distance(a, b) equals
\* categorical_distance(b, a) and is 0 exactly when a = b, and is_adjacent is
\* symmetric and irreflexive.
C19_DistanceSymmetric ==
    /\ call.op = "categorical_distance" =>
          LET a == call.args[1]
              b == call.args[2]
          IN  /\ call.ret.tag = "Val"
              /\ call.ret = PartitionCoord_categorical_distance(b, a, overflow_checks)
              /\ (call.ret.val.radicand = WideFromInt(0)) <=> (a = b)
    /\ call.op = "is_adjacent" =>
          LET a == call.args[1]
              b == call.args[2]
          IN  /\ call.ret.tag = "Val"
              /\ call.ret = PartitionCoord_is_adjacent(b, a, overflow_checks)
              /\ a = b => call.ret.val = FALSE

\* position of a coordinate in the canonical order of its level
Before(c, d) ==
    \/ c.l < d.l
    \/ c.l = d.l /\ c.m < d.m
    \/ c.l = d.l /\ c.m = d.m /\ c.s = "Down" /\ d.s = "Up"

\* C20: all_coords_at_level(n) returns InvalidN for n < 1 and for n >= 1
\* exactly capacity(n) = 2 n^2 distinct valid coordinates of level n in the
\* canonical order, the k-th (from 0) with linear index total_capacity(n-1) + k.
C20_LevelEnumeration ==
    call.op = "all_coords_at_level" =>
        LET n == call.args[1]
        IN  IF n < 1 THEN IsErr(call.ret, "InvalidN", <<n>>)
            ELSE /\ call.ret.tag = "Ok"
                 /\ LET coords == call.ret.val
                    IN  /\ WideFromInt(Len(coords)) = PartitionCoord_capacity(n, overflow_checks).val
                        /\ Len(coords) = 2 * n * n
                        /\ \A k \in 1..Len(coords) :
                              /\ ValidPartitionCoord(coords[k])
                              /\ coords[k].n = n
                              /\ PartitionCoord_to_linear_index(coords[k], overflow_checks)
                                     = Val(WideAdd(PartitionCoord_total_capacity(
                                                       n - 1, overflow_checks).val,
                                                   WideFromInt(k - 1)))
                        /\ \A j, k \in 1..Len(coords) : j < k => Before(coords[j], coords[k])

----------------------------------------------------------------------------
(* Calls of common_ancestor, navigation_distance and path_to *)

PathAddrs == {[digits |-> q] : q \in DigitSeqsUpTo(DepthBound)}

CallCommonAncestor ==
    \E a \in PathAddrs, b \in PathAddrs :
        call = NoCall /\ Returned("common_ancestor", <<a, b>>,
                                  Val(TernaryAddr_common_ancestor(a, b)))

CallNavigationDistance ==
    \E a \in PathAddrs, b \in PathAddrs :
        call = NoCall /\ Returned("navigation_distance", <<a, b>>,
                                  Val(TernaryAddr_navigation_distance(a, b)))

CallPathTo ==
    \E a \in PathAddrs, b \in PathAddrs :
        call = NoCall /\ Returned("path_to", <<a, b>>, Val(TernaryAddr_path_to(a, b)))

PathNext == CallCommonAncestor \/ CallNavigationDistance \/ CallPathTo

SpecPath == TernaryInit /\ [][PathNext]_vars

\* p is a leading part of q
IsPrefix(p, q) == Len(p) <= Len(q) /\ SubSeq(q, 1, Len(p)) = p

\* c is the longest address that is a prefix of both a and b
LongestSharedPrefix(c, a, b) ==
    /\ IsPrefix(c.digits, a.digits) /\ IsPrefix(c.digits, b.digits)
    /\ \A k \in (Len(c.digits) + 1)..Len(a.digits) :
          ~IsPrefix(SubSeq(a.digits, 1, k), b.digits)

\* x is the parent of y
ParentOf(x, y) == y.digits # <<>> /\ x.digits = SubSeq(y.digits, 1, Len(y.digits) - 1)

\* C21: for valid addresses a and b, path_to starts with a, ends with b, holds
\* their longest shared prefix, has navigation_distance + 1 = depth(a) + depth(b)
\* - 2*depth(ancestor) + 1 elements and goes first only up, then only down, one
\* parent/child step at a time; navigation_distance is symmetric and 0 exactly
\* when a = b.
C21_PathThroughAncestor ==
    /\ call.op = "common_ancestor" =>
          LongestSharedPrefix(call.ret.val, call.args[1], call.args[2])
    /\ call.op = "navigation_distance" =>
          LET a == call.args[1]
              b == call.args[2]
          IN  /\ \E c \in PathAddrs :
                    /\ LongestSharedPrefix(c, a, b)
                    /\ call.ret.val = Len(a.digits) + Len(b.digits) - 2 * Len(c.digits)
              /\ call.ret.val = TernaryAddr_navigation_distance(b, a)
              /\ call.ret.val = 0 <=> a = b
    /\ call.op = "path_to" =>
          LET a == call.args[1]
              b == call.args[2]
              path == call.ret.val
              top == Len(a.digits) - TakeWhileEqual(b.digits, a.digits, 0) + 1
          IN  /\ Len(path) = TernaryAddr_navigation_distance(a, b) + 1
              /\ path[1] = a
              /\ path[Len(path)] = b
              /\ top \in 1..Len(path)
              /\ LongestSharedPrefix(path[top], a, b)
              /\ \A i \in 1..(Len(path) - 1) :
                    IF i < top THEN ParentOf(path[i + 1], path[i])
                    ELSE ParentOf(path[i], path[i + 1])

\* a path that climbs two steps and descends one
C21_Witness ==
    /\ call.op = "path_to"
    /\ call.args = <<[digits |-> <<0, 1, 2>>], [digits |-> <<0, 2>>]>>
    /\ call.ret.val = <<[digits |-> <<0, 1, 2>>], [digits |-> <<0, 1>>],
                        [digits |-> <<0>>], [digits |-> <<0, 2>>]>>

----------------------------------------------------------------------------
(* The Kuramoto operators on phase values.                                   *)
(* An angle is a whole number of units, Turn units to 2*pi, or NaN; sines    *)
(* are taken of the multiples of 30 degrees, GridStep units apart, at the    *)
(* scale SinOne.  A frequency is a number of units per time step together    *)
(* with a residue of 1e-20 rad/s, far below the spacing of the doubles near  *)
(* 2*pi, that an f64 keeps only next to 0.0.                                 *)

Turn == 1200
GridStep == 100
SinOne == 1000
SinTable == <<0, 500, 866, 1000, 866, 500, 0, -500, -866, -1000, -866, -500>>

\* f64::sin of a grid angle
Sin(x) == IF IsNaN(x) THEN NaN ELSE SinTable[((x % Turn) \div GridStep) + 1]
Cos(x) == Sin(FAdd(x, 3 * GridStep))

\* the sum of f[1..k], NaN when a term is NaN
RECURSIVE SumTo(_, _)
SumTo(f, k) == IF k = 0 THEN 0 ELSE FAdd(SumTo(f, k - 1), f[k])

\* a / b of f64 on whole numbers, rounded toward zero
Quotient(a, b) == IF a < 0 THEN -((-a) \div b) ELSE a \div b

\* Complex64::norm to the nearest unit
Norm(re, im) ==
    LET x == re * re + im * im
        f == FloorSqrt(x, 0, Abs(re) + Abs(im))
    IN  IF x - f * f > f THEN f + 1 ELSE f

\* phase_lock: the magnitude R of the mean of the unit vectors at scale SinOne
\* (the mean phase Psi is not kept).  The mean of no vectors is (0 + 0i) / 0.0,
\* NaN in both parts.
phase_lock(phases) ==
    LET n == Len(phases)
        re == SumTo([j \in 1..n |-> Cos(phases[j])], n)
        im == SumTo([j \in 1..n |-> Sin(phases[j])], n)
    IN  IF n = 0 \/ IsNaN(re) \/ IsNaN(im) THEN NaN
        ELSE (2 * Norm(re, im) + n) \div (2 * n)

coherence(phases) == phase_lock(phases)

\* a frequency of base units per time step plus tiny * 1e-20 rad/s
Freq(base, tiny) == [base |-> base, tiny |-> tiny]

Sign(x) == IF x < 0 THEN -1 ELSE IF x > 0 THEN 1 ELSE 0

\* coupling_sum of oscillator i: the inner loop over j reads state.phases only
CouplingSum(phases, i) ==
    SumTo([j \in 1..Len(phases) |-> Sin(FSub(phases[j], phases[i]))], Len(phases))

\* d_phases[i] += (k / n as f64) * coupling_sum
AddCoupling(d, k, n, coupling_sum) ==
    IF IsNaN(coupling_sum) THEN Freq(NaN, 0)
    ELSE LET term == Quotient(k * coupling_sum, n * SinOne)
         IN  Freq(d.base + term, IF d.base = 0 /\ term = 0 THEN d.tiny ELSE 0)

\* the loop for i in 0..n of kuramoto from oscillator i on
RECURSIVE CouplingLoop(_, _, _)
CouplingLoop(state, i, d_phases) ==
    IF i > Len(state.phases) THEN d_phases
    ELSE CouplingLoop(state, i + 1,
                      [d_phases EXCEPT ![i] = AddCoupling(@, state.coupling_strength,
                                                          Len(state.phases),
                                                          CouplingSum(state.phases, i))])

\* phase + d * dt: the residue of d survives only when everything else is 0.0
Advance(phase, d, dt) ==
    IF IsNaN(phase) \/ IsNaN(d.base) THEN Freq(NaN, 0)
    ELSE Freq(phase + d.base * dt,
              IF phase + d.base * dt = 0 /\ phase = 0 THEN d.tiny * Sign(dt) ELSE 0)

\* f64::rem_euclid(2.0 * PI): r = x % rhs, and r + rhs when r < 0.0; for a
\* negative r below half the spacing of the doubles at rhs the sum rounds to rhs
RemEuclid(x) ==
    IF IsNaN(x.base) THEN NaN
    ELSE IF x.base = 0 /\ x.tiny < 0 THEN Turn
    ELSE x.base % Turn

\* kuramoto on the values, for phases and frequencies of one length
kuramoto_values(state, dt) ==
    LET d_phases == CouplingLoop(state, 1, state.natural_frequencies)
    IN  [phases |-> [i \in 1..Len(state.phases) |->
                        RemEuclid(Advance(state.phases[i], d_phases[i], dt))],
         natural_frequencies |-> state.natural_frequencies,
         coupling_strength |-> state.coupling_strength]

\* longest phase array taken element by element
PhaseBound == 3

GridPhases == {k * GridStep : k \in 0..11}
PhaseArrays ==
    UNION {[1..n -> GridPhases \cup {NaN}] : n \in 0..PhaseBound}
        \cup {[i \in 1..n |-> p] : n \in {4, 12}, p \in GridPhases}
        \cup {[i \in 1..n |-> (i - 1) * (Turn \div n)] : n \in {2, 3, 4, 6, 12}}

CallPhaseLock ==
    \E phases \in PhaseArrays :
        call = NoCall /\ Returned("phase_lock", <<phases>>, Val(phase_lock(phases)))

CallCoherence ==
    \E phases \in PhaseArrays :
        call = NoCall /\ Returned("coherence", <<phases>>, Val(coherence(phases)))

ValueStates ==
    {[phases |-> p, natural_frequencies |-> f, coupling_strength |-> k] :
        p \in [1..2 -> {0, 100, 300, 1100}],
        f \in [1..2 -> {Freq(0, 0), Freq(0, -1), Freq(150, 0), Freq(-150, 0)}],
        k \in {0, 200}}
        \cup {[phases |-> <<NaN, 100>>, natural_frequencies |-> <<Freq(0, 0), Freq(0, 0)>>,
               coupling_strength |-> 200],
              [phases |-> <<>>, natural_frequencies |-> <<>>, coupling_strength |-> 200]}

CallKuramotoValues ==
    \E state \in ValueStates, dt \in {-1, 0, 1, 9} :
        call = NoCall /\ Returned("kuramoto", <<state, dt>>, Val(kuramoto_values(state, dt)))

PhasesNext == CallPhaseLock \/ CallCoherence \/ CallKuramotoValues

SpecPhases == TernaryInit /\ [][PhasesNext]_vars

\* all phases of the array are one value
Identical(phases) == \A i \in 1..Len(phases) : phases[i] = phases[1]

\* the phases are i * 2*pi / n for i = 0..n-1
UniformlySpaced(phases) ==
    /\ Len(phases) >= 2
    /\ \A i \in 1..Len(phases) : phases[i] = (i - 1) * (Turn \div Len(phases))

\* C22: for every phase array the magnitude R returned by phase_lock and by
\* coherence lies in [0,1]; identical phases give R = 1 and uniformly spaced
\* phases give R < 0.1.
C22_OrderParameterInUnit ==
    call.op \in {"phase_lock", "coherence"} =>
        LET phases == call.args[1]
            r == call.ret.val
        IN  /\ ~IsNaN(r) /\ 0 <= r /\ r <= SinOne
            /\ Identical(phases) => r = SinOne
            /\ UniformlySpaced(phases) => 10 * r < SinOne

\* C22 for the arrays of at least one phase value, none of them NaN
C22_NonEmptyInUnit ==
    (/\ call.op \in {"phase_lock", "coherence"}
     /\ call.args[1] # <<>>
     /\ \A i \in 1..Len(call.args[1]) : ~IsNaN(call.args[1][i])) =>
        C22_OrderParameterInUnit

\* the new phase of oscillator i, from the input state only
PhaseFromInput(state, dt, i) ==
    RemEuclid(Advance(state.phases[i],
                      AddCoupling(state.natural_frequencies[i], state.coupling_strength,
                                  Len(state.phases), CouplingSum(state.phases, i)),
                      dt))

\* the returned state is computed from the input phases only and keeps the
\* frequencies and the coupling strength
ReadOldWriteNew ==
    call.op = "kuramoto" =>
        LET state == call.args[1]
            out == call.ret.val
        IN  /\ out.natural_frequencies = state.natural_frequencies
            /\ out.coupling_strength = state.coupling_strength
            /\ Len(out.phases) = Len(state.phases)
            /\ \A i \in 1..Len(out.phases) :
                  out.phases[i] = PhaseFromInput(state, call.args[2], i)

\* C23: kuramoto(state, dt) computes every new phase from the unmodified input
\* phases only, keeps the natural frequencies and the coupling strength, and
\* every returned phase lies in [0, 2*pi).
C23_FunctionalUpdateInRange ==
    /\ ReadOldWriteNew
    /\ call.op = "kuramoto" =>
          \A i \in 1..Len(call.ret.val.phases) :
              /\ ~IsNaN(call.ret.val.phases[i])
              /\ 0 <= call.ret.val.phases[i] /\ call.ret.val.phases[i] < Turn

\* C23 for finite phases without a residue in the frequencies
C23_InRangeWithoutResidue ==
    (/\ call.op = "kuramoto"
     /\ \A i \in 1..Len(call.args[1].phases) :
            /\ ~IsNaN(call.args[1].phases[i])
            /\ call.args[1].natural_frequencies[i].tiny = 0) =>
        C23_FunctionalUpdateInRange

----------------------------------------------------------------------------
(* The coupling strength under compute_consciousness *)

\* the factors a call of compute_consciousness applies, read from what it
\* returned: one per recorded consciousness value c, 1.01 for c below the
\* target and 0.99 otherwise, none for the value that ended the call
RECURSIVE FactorsFor(_, _, _)
FactorsFor(convergence_history, target_consciousness, k) ==
    IF k = 0 THEN <<>>
    ELSE Append(FactorsFor(convergence_history, target_consciousness, k - 1),
                IF /\ ~IsNaN(convergence_history[k])
                   /\ convergence_history[k] < target_consciousness * FxOne * FxOne * FxOne
                THEN 101 ELSE 99)

AdjustedIterations(result) ==
    IF result.success THEN result.iterations - 1 ELSE result.iterations

\* operations that record the engine they were called on
SelfOps == {"run_simulation", "dream_simulation", "compute_consciousness",
            "apply_drug_perturbation", "reset_kuramoto", "find_equilibrium"}

\* the stored coupling after the last call of compute_consciousness
CouplingAdjusted ==
    call.op = "compute_consciousness" =>
        LET result == call.ret.val
        IN  /\ Len(result.convergence_history) = result.iterations
            /\ kuramoto_state.coupling_factors =
                   call.args[1].kuramoto_state.coupling_factors
                       \o FactorsFor(result.convergence_history, call.args[3],
                                     AdjustedIterations(result))

\* the next call starts from the coupling the last one left
CouplingPersists ==
    (/\ call.op = "compute_consciousness"
     /\ call' # call
     /\ call'.op \in SelfOps \ {"reset_kuramoto"}) =>
        call'.args[1].kuramoto_state.coupling_factors = kuramoto_state.coupling_factors

\* C24: every iteration of compute_consciousness that does not terminate
\* multiplies the coupling strength by one factor, 1.01 when the consciousness
\* is below the target and 0.99 otherwise, and the iteration that terminates
\* with success applies none; the stored coupling is K0 * 1.01^a * 0.99^b and
\* later calls start from it.
C24_CouplingAdjustment == [](CouplingAdjusted) /\ [][CouplingPersists]_vars

\* a second call on an engine whose coupling the first call adjusted, applying
\* one factor of each kind
C24_Witness ==
    /\ call.op = "compute_consciousness"
    /\ call.args[1].kuramoto_state.coupling_factors # <<>>
    /\ \E i \in 1..Len(kuramoto_state.coupling_factors) :
          i > Len(call.args[1].kuramoto_state.coupling_factors)
              /\ kuramoto_state.coupling_factors[i] = 101
    /\ \E i \in 1..Len(kuramoto_state.coupling_factors) :
          i > Len(call.args[1].kuramoto_state.coupling_factors)
              /\ kuramoto_state.coupling_factors[i] = 99

----------------------------------------------------------------------------
(* COMPLETE over start points inside, on and outside the unit cube *)

\* the largest iteration budget of the calls
CompleteBudget == 3

CompleteBudgets == {0, 1, CompleteBudget}

CompleteStarts ==
    {SCoord_new_unchecked(10, 10, 10), SCoord_equilibrium,
     SCoord_new_unchecked(150, 0, 0), SCoord_from_frequency(12, 1)}

CompleteConstraints ==
    {<<>>, <<ConstantConstraint(30)>>, <<SkConstraint(50)>>,
     <<SkConstraint(50), StConstraint(50), SeConstraint(50)>>}

CallComplete ==
    \E partial_state \in CompleteStarts, constraints \in CompleteConstraints,
       max_iterations \in CompleteBudgets, tolerance \in {0, 1, 2},
       learning_rate \in {0, 50, NaN} :
        call = NoCall /\ Returned("complete",
                  <<partial_state, constraints, max_iterations, tolerance, learning_rate>>,
                  Val(complete(partial_state, constraints, max_iterations, tolerance,
                               learning_rate)))

CompleteNext == CallComplete

SpecComplete == TernaryInit /\ [][CompleteNext]_vars

\* the shape of a result of complete against its arguments
ResultShape(args, r) ==
    /\ r.trajectory[1] = args[1]
    /\ r.final_state = r.trajectory[Len(r.trajectory)]
    /\ Len(r.trajectory) = r.iterations + 1
    /\ Len(r.constraint_violations) = r.iterations + 1
    /\ r.iterations <= args[3]
    /\ ((~IsNaN(TotalViolation(args[2], args[1], 1))
         /\ TotalViolation(args[2], args[1], 1) < args[4]) => r.iterations = 0)
    /\ r.success = (/\ ~IsNaN(r.constraint_violations[Len(r.constraint_violations)])
                    /\ r.constraint_violations[Len(r.constraint_violations)] < args[4])

\* every trajectory point after the first lies in the unit cube
AfterFirstInCube(r) ==
    \A i \in 2..Len(r.trajectory) : ValidSCoord(r.trajectory[i])

\* C25: every result of complete starts its trajectory at partial_state, ends
\* it at final_state, records iterations + 1 points and violations with
\* iterations <= max_iterations (0 when the start satisfies the constraints),
\* succeeds exactly when the last violation is below tolerance, and has every
\* point after the first in the unit cube
C25_CompleteResult ==
    call.op = "complete" =>
        ResultShape(call.args, call.ret.val) /\ AfterFirstInCube(call.ret.val)

\* the shape holds for every call
C25_ShapeOnly ==
    call.op = "complete" => ResultShape(call.args, call.ret.val)

\* the points are in the cube when the start has no NaN coordinate and the
\* learning rate is a number
C25_InCubeForNumbers ==
    (/\ call.op = "complete"
     /\ ~IsNaN(call.args[1].sk)
     /\ ~IsNaN(call.args[5])) =>
        AfterFirstInCube(call.ret.val)

\* a call from a start in the cube that made a descent update
C25_Updated ==
    /\ call.op = "complete"
    /\ ValidSCoord(call.args[1])
    /\ call.ret.val.iterations >= 1
    /\ call.ret.val.success

\* a coordinate of the start is on the upper bound, a constraint asks less of
\* it and the descent has a rate and the budget to reach it in one update
OnUpperBoundary(args) ==
    /\ args[5] = 50
    /\ args[3] >= 1
    /\ args[4] >= 1
    /\ \E i \in 1..Len(args[2]) :
           /\ args[2][i].kind # "constant"
           /\ Axis(args[1], args[2][i].kind) = FxOne
           /\ args[2][i].v < FxOne
    /\ \A i \in 1..Len(args[2]) : args[2][i].kind # "constant"

\* C26: on the upper bound the gradient component of an axis is the inward
\* difference, so complete started there moves off the boundary and converges
C26_InwardAtBoundary ==
    (call.op = "complete" /\ OnUpperBoundary(call.args)) =>
        /\ \A i \in 1..Len(call.args[2]) :
               Axis(call.args[1], call.args[2][i].kind) = FxOne =>
                   Component(call.args[1], call.args[2], call.args[2][i].kind)
                       = Component_Inward(call.args[1], call.args[2], call.args[2][i].kind)
        /\ call.ret.val.trajectory[2] # call.args[1]
        /\ call.ret.val.success

\* below the upper bound the same descent converges
C26_InteriorConverges ==
    (/\ call.op = "complete"
     /\ call.args[1] = SCoord_new_unchecked(10, 10, 10)
     /\ call.args[2] = <<SkConstraint(50), StConstraint(50), SeConstraint(50)>>
     /\ call.args[3] >= 1 /\ call.args[4] >= 1 /\ call.args[5] = 50) =>
        call.ret.val.success

\* started at (1, 1, 1) the descent stays there
C26_StuckAtBoundary ==
    (/\ call.op = "complete"
     /\ call.args[1] = SCoord_equilibrium
     /\ call.args[2] = <<SkConstraint(50), StConstraint(50), SeConstraint(50)>>
     /\ ~IsNaN(call.args[5])) =>
        /\ call.ret.val.final_state = SCoord_equilibrium
        /\ ~call.ret.val.success

----------------------------------------------------------------------------
(* The coupling strength across the drug variant *)

\* apply_drug_perturbation returns the given state with gamma the coherence read
DrugReturnsGammaOnly ==
    (call.op = "apply_drug_perturbation" /\ call.ret.tag = "Val") =>
        call.ret.val = [call.args[2] EXCEPT !.gamma = call.args[6]]

\* C27: the state returned by kuramoto_with_drug has the coupling strength of
\* the state given, so apply_drug_perturbation leaves the stored coupling as it
\* was, and it returns the given MentalState with gamma the new coherence
C27_DrugLeavesCoupling ==
    /\ (call.op = "kuramoto_with_drug" /\ call.ret.tag = "Val") =>
           call.ret.val.coupling_factors = call.args[1].coupling_factors
    /\ (call.op = "apply_drug_perturbation" /\ call.ret.tag = "Val") =>
           kuramoto_state.coupling_factors = call.args[1].kuramoto_state.coupling_factors
    /\ DrugReturnsGammaOnly

\* the returned and the stored coupling strength carry the factor of the drug,
\* once per call
C27_DrugFactorStored ==
    /\ (call.op = "kuramoto_with_drug" /\ call.ret.tag = "Val") =>
           call.ret.val.coupling_factors
               = Append(call.args[1].coupling_factors, DrugFactor(call.args[2], call.args[3]))
    /\ (call.op = "apply_drug_perturbation" /\ call.ret.tag = "Val") =>
           kuramoto_state.coupling_factors
               = Append(call.args[1].kuramoto_state.coupling_factors,
                        DrugFactor(call.args[3], call.args[4]))

\* a second perturbation of an engine that holds the factor of the first
C27_Compounded ==
    /\ call.op = "apply_drug_perturbation"
    /\ call.ret.tag = "Val"
    /\ Len(kuramoto_state.coupling_factors) = 2
    /\ kuramoto_state.coupling_factors[1] = 50
    /\ kuramoto_state.coupling_factors[2] = 50

----------------------------------------------------------------------------
(* The timestamps of a simulation *)

\* C28: the k-th state returned by run_simulation has the timestamp of the
\* initial state plus k * dt, the last one that plus floor(duration/dt) * dt
C28_TimestampPerStep ==
    (call.op = "run_simulation" /\ call.ret.tag = "Val") =>
        /\ \A k \in 1..Len(call.ret.val) :
               call.ret.val[k].timestamp = call.args[2].timestamp + k * call.args[4]
        /\ (Len(call.ret.val) > 0) =>
               call.ret.val[Len(call.ret.val)].timestamp
                   = call.args[2].timestamp + Floor(call.args[3], call.args[4]) * call.args[4]

\* the k-th state is 3 * k * dt after the initial one: both decays and the
\* loop advance the timestamp
C28_ThreeTimesPerStep ==
    (call.op = "run_simulation" /\ call.ret.tag = "Val") =>
        \A k \in 1..Len(call.ret.val) :
            call.ret.val[k].timestamp = call.args[2].timestamp + 3 * k * call.args[4]

\* a run that returned several states
C28_SeveralSteps ==
    /\ call.op = "run_simulation"
    /\ call.ret.tag = "Val"
    /\ Len(call.ret.val) >= 2
    /\ call.args[4] > 0

----------------------------------------------------------------------------
(* Time and memory in the StateManager *)

\* a / b of f64 on hundredths, toward zero
FDiv(a, b) ==
    IF b < 0 THEN Quotient(-a * FxOne, -b) ELSE Quotient(a * FxOne, b)

\* compute_memory_differential on a history
compute_memory_differential(h) ==
    IF Len(h) < 2 THEN 0
    ELSE LET n == Len(h)
             dt == h[n].timestamp - h[n - 1].timestamp
         IN  IF dt = 0 THEN 0
             ELSE FDiv(h[n].m - h[n - 1].m, dt)

\* a state with memory and time as given
Entry(m, timestamp) == [MentalState_default EXCEPT !.m = m, !.timestamp = timestamp]

\* time and memory of the current state and of every history entry are 0
NoTimeNoMemory ==
    /\ current_state.timestamp = 0
    /\ current_state.m = 0
    /\ \A i \in 1..Len(history) : history[i].timestamp = 0 /\ history[i].m = 0
    /\ compute_memory_differential(history) = 0

\* the quotient is returned for entries at different times only: 0.06 of
\* memory over 0.02 s is 3.0, over no time 0.0, and one entry gives 0.0
QuotientOnlyAcrossTime ==
    /\ compute_memory_differential(<<Entry(0, 0), Entry(6, 2)>>) = 3 * FxOne
    /\ compute_memory_differential(<<Entry(6, 2), Entry(0, 0)>>) = 3 * FxOne
    /\ compute_memory_differential(<<Entry(6, 2), Entry(0, 0), Entry(6, 0)>>) = 0
    /\ compute_memory_differential(<<Entry(6, 2)>>) = 0

\* no step changes the timestamp or the memory of the current state
TimeAndMemoryKept ==
    /\ current_state'.timestamp = current_state.timestamp
    /\ current_state'.m = current_state.m

\* C29: no StateManager operation changes the timestamp or the memory m of the
\* current state, so every history entry has timestamp 0 and m 0 and
\* compute_memory_differential returns 0; it returns the quotient only when
\* the last two entries have different timestamps
C29_NoTimeNoMemory ==
    /\ [](NoTimeNoMemory /\ QuotientOnlyAcrossTime)
    /\ [][TimeAndMemoryKept]_vars

\* a full history of two entries after a dream and a wake-up
C29_Witness ==
    /\ Len(history) = 2
    /\ call.op = "wake_up"
    /\ history[1].p_decay = 0
    /\ compute_memory_differential(history) = 0

----------------------------------------------------------------------------
(* The StateManager on coordinates built without validation *)

\* x < 0.0 || x > 1.0
OutOfUnit(x) == ~IsNaN(x) /\ (x < 0 \/ x > FxOne)

\* validate_state on the current state
validate_state(state) ==
    IF OutOfUnit(state.gamma) THEN FALSE
    ELSE IF OutOfUnit(state.gamma_f) THEN FALSE
    ELSE IF OutOfUnit(state.p_decay) THEN FALSE
    ELSE IF OutOfUnit(state.t_decay) THEN FALSE
    ELSE IF IsSome(state.s_coord)
         THEN (IF OutOfUnit(Unwrap(state.s_coord).sk) THEN FALSE
               ELSE IF OutOfUnit(Unwrap(state.s_coord).st) THEN FALSE
               ELSE IF OutOfUnit(Unwrap(state.s_coord).se) THEN FALSE
               ELSE TRUE)
         ELSE TRUE

\* targets of every kind an SCoord value can be: in the cube, outside it and
\* with a NaN axis
UncheckedCoords ==
    {SCoord_origin, SCoord_new_unchecked(150, 0, 0), SCoord_from_frequency(12, 1)}

TransitionUnchecked ==
    \E t \in UncheckedCoords, g \in {None, Some(150), Some(NaN)} :
        n_ops < MaxOps /\ transition(t, g, None)

WakeUpAny == \E lvl \in {-50, 150, NaN} : n_ops < MaxOps /\ wake_up(lvl)

UncheckedNext ==
    \/ Initialize
    \/ TransitionUnchecked
    \/ EnterDreamMode
    \/ WakeUpAny
    \/ ClearHistory

SpecUnchecked == Init /\ [][UncheckedNext]_vars

\* whenever history is non-empty its last entry is the current state
LastIsCurrent == Len(history) > 0 => history[Len(history)] = current_state

\* the current coordinate, if any, has no axis below 0 or above 1
CoordWithinBounds ==
    IsSome(current_state.s_coord) =>
        /\ ~OutOfUnit(Unwrap(current_state.s_coord).sk)
        /\ ~OutOfUnit(Unwrap(current_state.s_coord).st)
        /\ ~OutOfUnit(Unwrap(current_state.s_coord).se)

====
